---- MODULE Spec2Model ----
(***************************************************************************)
(* Model of the BM1398 protocol driver (src/bm1398_asic.c): command codec, *)
(* command-bus transport, register access, two-stage chain bring-up and    *)
(* work submission, against an FPGA register window whose hardware side    *)
(* (ready bit, response FIFO) is the environment.                          *)
(*                                                                         *)
(* A uint32_t is a tuple of four bytes, most significant first, because    *)
(* TLC integers are 32-bit signed: <<b3, b2, b1, b0>> is the value         *)
(* b3*2^24 + b2*2^16 + b1*2^8 + b0.                                        *)
(***************************************************************************)
EXTENDS Integers, Sequences, FiniteSets, TLC

VARIABLES
    ctx,        \* bm1398_context_t: [initialized, chips_per_chain]
    regs,       \* the modelled words of the FPGA register window
    hwDelay,    \* hardware: polls of the trigger that still see the ready bit
    fifo,       \* hardware: response FIFO behind REG_RETURN_NONCE
    call,       \* the driver call in progress (single-threaded callers)
    th,         \* per thread: locals of a concurrently running transport call
    log,        \* events of the calls in progress (bus frames, FPGA writes)
    ready,      \* per chain: the last bm1398_init_chain on it returned 0
    faults,     \* number of commands the hardware did not complete in time
    calls,      \* number of driver calls started
    codec,      \* input and output of a pure codec evaluation
    hwNonce,    \* hardware: the solution it will put in the FIFO, and when
    nonces      \* the caller's nonce array and the result of the last drain

vars == <<ctx, regs, hwDelay, fifo, call, th, log, ready, faults, calls, codec,
          hwNonce, nonces>>

----------------------------------------------------------------------------
(* Bounds of the model *)

\* commands that may time out in one behaviour
MaxFaults == 1
\* driver calls in one behaviour
MaxCalls == 2
\* chips on a detected chain (stands for CHIPS_PER_CHAIN_S19PRO = 114)
NumChips == 2
\* iterations of the transmit wait loop (stands for 10000)
PollBudget == 2
\* length of the generated checksum inputs
MaxCodecBytes == 2
\* slots of the nonce array a caller hands to the drain
MaxNonceSlots == 3
\* nonce reads and drains in one behaviour
MaxDrains == 1
\* direct calls of the register-window functions in one behaviour
MaxWindowCalls == 1
\* polls of the occupancy register by a read made with a timeout of 100 ms
\* (stands for 1000)
ReadPollBudget == 3

----------------------------------------------------------------------------
(* Bytes and 32-bit words *)

RECURSIVE BitAnd(_, _), BitOr(_, _), BitXor(_, _)
BitAnd(a, b) ==
    IF a = 0 \/ b = 0 THEN 0
    ELSE (a % 2) * (b % 2) + 2 * BitAnd(a \div 2, b \div 2)

BitOr(a, b) ==
    IF a = 0 THEN b
    ELSE IF b = 0 THEN a
    ELSE (IF a % 2 = 1 \/ b % 2 = 1 THEN 1 ELSE 0) + 2 * BitOr(a \div 2, b \div 2)

BitXor(a, b) ==
    IF a = 0 THEN b
    ELSE IF b = 0 THEN a
    ELSE ((a + b) % 2) + 2 * BitXor(a \div 2, b \div 2)

Byte == 0..255

WordAnd(x, y) == [i \in 1..4 |-> BitAnd(x[i], y[i])]
WordOr(x, y) == [i \in 1..4 |-> BitOr(x[i], y[i])]
WordNot(x) == [i \in 1..4 |-> 255 - x[i]]

\* the word holding the natural number n (n < 2^31)
ToWord(n) ==
    << (n \div 16777216) % 256, (n \div 65536) % 256, (n \div 256) % 256, n % 256 >>

\* __builtin_bswap32
bswap32(w) == << w[4], w[3], w[2], w[1] >>

ZeroWord == << 0, 0, 0, 0 >>

----------------------------------------------------------------------------
(* Protocol constants (include/bm1398_asic.h) *)

CMD_PREAMBLE_SET_ADDRESS == 64
CMD_PREAMBLE_WRITE_REG == 65
CMD_PREAMBLE_READ_REG == 66
CMD_PREAMBLE_WRITE_BCAST == 81
CMD_PREAMBLE_READ_BCAST == 82
CMD_PREAMBLE_CHAIN_INACTIVE == 83
CMD_LEN_ADDRESS == 5
CMD_LEN_WRITE_REG == 9
MAX_CHAINS == 3

----------------------------------------------------------------------------
(* CRC5: bm1398_crc5 *)

\* one iteration of the loop body: the incoming bit is OR-ed into bit 0 of
\* the shifted checksum before the conditional XOR with 0x05
Crc5Step(crc, bit) ==
    LET shifted == BitOr((crc * 2) % 256, bit)
    IN  IF BitAnd(crc, 16) # bit * 16
        THEN BitAnd(BitXor(shifted, 5), 31)
        ELSE BitAnd(shifted, 31)

\* bit i (0-based) of data, most significant bit of each byte first
DataBit(data, i) == (data[(i \div 8) + 1] \div (2 ^ (7 - (i % 8)))) % 2

\* the loop body tabulated, and eight iterations of it over one byte
Crc5StepTable == [crc \in 0..31 |-> [bit \in 0..1 |-> Crc5Step(crc, bit)]]

RECURSIVE Crc5Bits(_, _, _)
Crc5Bits(crc, byte, n) ==
    IF n = 0 THEN crc
    ELSE Crc5StepTable[Crc5Bits(crc, byte, n - 1)][DataBit(<< byte >>, n - 1)]

Crc5ByteTable == [crc \in 0..31 |-> [byte \in Byte |-> Crc5Bits(crc, byte, 8)]]

\* crc after the loop has consumed the first n whole bytes of data
RECURSIVE Crc5Bytes(_, _)
Crc5Bytes(data, n) ==
    IF n = 0 THEN 31
    ELSE Crc5ByteTable[Crc5Bytes(data, n - 1)][data[n]]

\* the loop over i = 0 .. bits-1: the whole bytes, then the bits that remain
bm1398_crc5(data, bits) ==
    LET whole == bits \div 8
        crc == Crc5Bytes(data, whole)
    IN  IF bits % 8 = 0 THEN crc
        ELSE Crc5Bits(crc, data[whole + 1], bits % 8)

----------------------------------------------------------------------------
(* Command frames: the cmd[] arrays built before bm1398_send_uart_cmd *)

\* cmd[0..3] and cmd[4] = bm1398_crc5(cmd, 32)
chain_inactive_cmd ==
    LET cmd == << CMD_PREAMBLE_CHAIN_INACTIVE, CMD_LEN_ADDRESS, 0, 0 >>
    IN  cmd \o << bm1398_crc5(cmd, 32) >>

set_chip_address_cmd(addr) ==
    LET cmd == << CMD_PREAMBLE_SET_ADDRESS, CMD_LEN_ADDRESS, addr, 0 >>
    IN  cmd \o << bm1398_crc5(cmd, 32) >>

\* mutation of write_register_cmd (sensitivity of C3): the value bytes least
\* significant first
write_register_cmd_le(broadcast, chip_addr, reg_addr, value) ==
    LET cmd == << (IF broadcast THEN CMD_PREAMBLE_WRITE_BCAST ELSE CMD_PREAMBLE_WRITE_REG),
                  CMD_LEN_WRITE_REG, chip_addr, reg_addr,
                  value[4], value[3], value[2], value[1] >>
    IN  cmd \o << bm1398_crc5(cmd, 64) >>

\* cmd[4..7] = value >> 24, value >> 16, value >> 8, value (each & 0xFF) and
\* cmd[8] = bm1398_crc5(cmd, 64)
write_register_cmd(broadcast, chip_addr, reg_addr, value) ==
    LET cmd == << (IF broadcast THEN CMD_PREAMBLE_WRITE_BCAST ELSE CMD_PREAMBLE_WRITE_REG),
                  CMD_LEN_WRITE_REG, chip_addr, reg_addr,
                  value[1], value[2], value[3], value[4] >>
    IN  cmd \o << bm1398_crc5(cmd, 64) >>

read_register_cmd(broadcast, chip_addr, reg_addr) ==
    LET cmd == << (IF broadcast THEN CMD_PREAMBLE_READ_BCAST ELSE CMD_PREAMBLE_READ_REG),
                  CMD_LEN_WRITE_REG, chip_addr, reg_addr, 0, 0, 0, 0 >>
    IN  cmd \o << bm1398_crc5(cmd, 64) >>

----------------------------------------------------------------------------
(* The register window: word offsets of the registers the model keeps *)

REG_RETURN_NONCE == 4
REG_NONCE_NUMBER_IN_FIFO == 6
REG_TW_WRITE_COMMAND == 16
REG_BC_WRITE_COMMAND == 48
REG_BC_COMMAND_BUFFER == 49

\* word offset of the nonce-timeout register, fpga_register_map[20]
FPGA_TIMEOUT_OFFSET == 35

ModelledRegs ==
    { REG_TW_WRITE_COMMAND, FPGA_TIMEOUT_OFFSET, REG_BC_WRITE_COMMAND,
      REG_BC_COMMAND_BUFFER, REG_BC_COMMAND_BUFFER + 1, REG_BC_COMMAND_BUFFER + 2 }

\* hwDelay of a ready bit that the hardware never clears
STUCK == -1

\* mutation of TriggerWord (sensitivity of C39): the chain selector is left
\* out of the trigger
TriggerWordNoChain(chain) == << 128, 0, 0, 0 >>

\* BC_COMMAND_BUFFER_READY | BC_CHAIN_ID(chain)
TriggerWord(chain) == << 128, chain % 16, 0, 0 >>

ReadyBit(w) == w[1] >= 128

ClearReady(w) == << w[1] % 128, w[2], w[3], w[4] >>

\* mutation of CmdWord (sensitivity of C32): the word is XOR-ed into what the
\* command buffer holds instead of stored over it
CmdWordToggled(cmd, i) ==
    LET b(k) == IF 4 * i + k <= Len(cmd) THEN cmd[4 * i + k] ELSE 0
    IN  [k \in 1..4 |-> BitXor(b(5 - k), regs[REG_BC_COMMAND_BUFFER + i][k])]

\* word i (0-based) of the command buffer for cmd: memcpy of up to four bytes
\* into a zeroed little-endian uint32_t
CmdWord(cmd, i) ==
    LET b(k) == IF 4 * i + k <= Len(cmd) THEN cmd[4 * i + k] ELSE 0
    IN  << b(4), b(3), b(2), b(1) >>

CmdWords(cmd) == [i \in 1..((Len(cmd) + 3) \div 4) |-> CmdWord(cmd, i - 1)]

\* the words the command buffer holds for a frame of n words
BufferWords(r, n) == [i \in 1..n |-> r[REG_BC_COMMAND_BUFFER + i - 1]]

\* the first len bytes the hardware shifts out of the command buffer: byte k
\* of the frame is byte k % 4 (least significant first) of buffer word k / 4
BufferBytes(r, len) ==
    [k \in 1..len |-> r[REG_BC_COMMAND_BUFFER + ((k - 1) \div 4)][4 - ((k - 1) % 4)]]

----------------------------------------------------------------------------
(* bm1398_send_uart_cmd, one step at a time.  A transport state is          *)
(* [u, regs, d]: u the locals [pc, chain, cmd, i, timeout, ret], regs the   *)
(* register window, d the hardware's hwDelay.                               *)

\* the argument checks at the head of the function
UartArgsOk(c, chain, cmd) ==
    /\ c.initialized
    /\ chain >= 0 /\ chain < MAX_CHAINS
    /\ Len(cmd) # 0 /\ Len(cmd) <= 12

UartEnter(chain, cmd) ==
    [pc |-> "buf", chain |-> chain, cmd |-> cmd, i |-> 0, timeout |-> 0, ret |-> 0]

\* mutation of UartTimeoutRet (sensitivity of C12): a used-up budget is not
\* reported
UartTimeoutRetNever(timeout) == 0

\* the exit test of the wait loop: failure exactly when the budget is used up
UartTimeoutRet(timeout) == IF timeout = 0 THEN -1 ELSE 0

\* lat: the number of polls that will see the ready bit of this command
\* set (STUCK: all of them), chosen by the hardware when it is triggered
UartStep(s, lat) ==
    LET u == s.u
        r == s.regs
    IN  CASE u.pc = "buf" ->
               IF u.i < (Len(u.cmd) + 3) \div 4
               THEN [s EXCEPT !.regs[REG_BC_COMMAND_BUFFER + u.i] = CmdWord(u.cmd, u.i),
                              !.u.i = u.i + 1]
               ELSE [s EXCEPT !.u.pc = "trig"]
          [] u.pc = "trig" ->
               [s EXCEPT !.regs[REG_BC_WRITE_COMMAND] = TriggerWord(u.chain),
                         !.d = lat,
                         !.u.timeout = PollBudget,
                         !.u.pc = "poll"]
          [] u.pc = "poll" ->
               \* one evaluation of the loop condition: a read of the trigger
               LET seen == ReadyBit(r[REG_BC_WRITE_COMMAND]) /\ s.d # 0
                   r2 == IF seen THEN r
                         ELSE [r EXCEPT ![REG_BC_WRITE_COMMAND] = ClearReady(@)]
                   d2 == IF seen /\ s.d > 0 THEN s.d - 1 ELSE s.d
               IN  IF seen /\ u.timeout > 0
                   THEN [s EXCEPT !.regs = r2, !.d = d2, !.u.timeout = u.timeout - 1]
                   ELSE [s EXCEPT !.regs = r2, !.d = IF seen THEN d2 ELSE 0,
                                  !.u.pc = "ret",
                                  !.u.ret = UartTimeoutRet(u.timeout)]
          [] OTHER -> s

\* the steps up to the return; each transport state is computed once
RECURSIVE UartRun(_, _)
UartRun(s, lat) ==
    IF s.u.pc = "ret" THEN s
    ELSE CHOOSE e \in { UartRun(n, lat) : n \in { UartStep(s, lat) } } : TRUE

\* the whole call, from a register window r and hardware delay d
bm1398_send_uart_cmd(c, r, d, chain, cmd, lat) ==
    IF ~UartArgsOk(c, chain, cmd)
    THEN [ret |-> -1, regs |-> r, d |-> d, sent |-> FALSE]
    ELSE CHOOSE res \in { [ret |-> e.u.ret, regs |-> e.regs, d |-> e.d, sent |-> TRUE] :
                           e \in { UartRun(n, lat) :
                                   n \in { [u |-> UartEnter(chain, cmd), regs |-> r,
                                            d |-> d] } } } : TRUE

\* the fault count of hardware whose ready bit never clears again
HwStuckForever == -1

\* the latencies the hardware may choose for a command
Latencies(f) ==
    IF f = HwStuckForever THEN {STUCK}
    ELSE (0..(PollBudget - 1)) \cup (IF f < MaxFaults THEN {PollBudget, STUCK} ELSE {})

IsFault(lat) == lat = STUCK \/ lat >= PollBudget

\* the fault count after a command of latency lat
FaultsAfter(f, lat) ==
    IF f = HwStuckForever THEN f ELSE IF IsFault(lat) THEN f + 1 ELSE f

----------------------------------------------------------------------------
(* Indirect FPGA register access *)

FPGA_REGISTER_MAP_SIZE == 110

fpga_register_map ==
    << 0, 1, 2, 3, 4, 6, 7, 8, 9, 10, 11, 12, 13, 14, 15, 16,
       16, 32, 33, 34, 35, 36, 37, 38, 0, 48, 49, 60, 62, 63, 64, 65,
       66, 68, 69, 70, 71, 72, 73, 76, 77, 78, 80, 96, 97, 98, 99, 100,
       101, 102, 103, 104, 105, 106, 107, 108, 109, 110, 111, 112, 113, 114, 115, 116,
       117, 118, 119, 124, 125, 126, 127, 128, 129, 130, 132, 133, 134, 135, 136, 137,
       138, 139, 140, 141, 142, 143, 144, 145, 146, 147, 148, 149, 150, 151, 152, 153,
       154, 155, 156, 157, 158, 159, 164, 165, 166, 167, 168, 169,
       \* the initializer stops here; the last two elements are zero
       0, 0 >>

FPGA_REG_TW_WRITE_CMD_FIRST == 16
FPGA_REG_TW_WRITE_CMD_REST == 17
FPGA_REG_TIMEOUT == 20

\* ctx->fpga_regs: the mapping of the register window, NULL before and
\* after it, or the MAP_FAILED that a failed mmap leaves in the field
REGS_MAPPED == "mapped"

REGS_NULL == "NULL"

MAP_FAILED == "MAP_FAILED"

\* the word offset fpga_write_indirect stores to for logical_index, -1 when
\* it rejects the call; the source tests ctx->fpga_regs against NULL only
FpgaWriteOffset(c, logical_index) ==
    IF c.fpga_regs = REGS_NULL THEN -1
    ELSE IF logical_index < 0 \/ logical_index >= FPGA_REGISTER_MAP_SIZE THEN -1
    ELSE fpga_register_map[logical_index + 1]

\* the register window after a sequence of fpga_write_indirect calls,
\* writes[i] = [idx, word]; a word the model does not keep is written and
\* forgotten, and a store through MAP_FAILED does not land in the window
FpgaWrites(c, r, writes) ==
    [o \in DOMAIN r |->
        LET hits == {i \in 1..Len(writes) : FpgaWriteOffset(c, writes[i].idx) = o}
        IN  IF hits = {} \/ c.fpga_regs = MAP_FAILED THEN r[o]
            ELSE writes[CHOOSE i \in hits : \A j \in hits : j <= i].word]

fpga_write_indirect(c, r, logical_index, value) ==
    FpgaWrites(c, r, << [idx |-> logical_index, word |-> value] >>)

\* what fpga_read_indirect returns, and whether it loaded through
\* ctx->fpga_regs; hw is what the load finds in a word the model does not
\* keep, or behind MAP_FAILED
fpga_read_indirect(c, r, logical_index, hw) ==
    IF c.fpga_regs = REGS_NULL THEN [value |-> ZeroWord, read |-> FALSE]
    ELSE IF logical_index < 0 \/ logical_index >= FPGA_REGISTER_MAP_SIZE
    THEN [value |-> ZeroWord, read |-> FALSE]
    ELSE LET word_offset == fpga_register_map[logical_index + 1]
         IN  [value |-> IF word_offset \in DOMAIN r /\ c.fpga_regs = REGS_MAPPED
                        THEN r[word_offset] ELSE hw,
              read |-> TRUE]

----------------------------------------------------------------------------
(* ASIC registers and the values the bring-up writes *)

ASIC_REG_PLL_PARAM_0 == 8
ASIC_REG_TICKET_MASK == 20
ASIC_REG_CLK_CTRL == 24
ASIC_REG_BAUD_CONFIG == 40
ASIC_REG_RESET_CTRL == 52
ASIC_REG_CORE_CONFIG == 60
ASIC_REG_CORE_PARAM == 68
ASIC_REG_DIODE_MUX == 84
ASIC_REG_IO_DRIVER == 88
ASIC_REG_PLL_PARAM_1 == 96
ASIC_REG_PLL_PARAM_2 == 100
ASIC_REG_PLL_PARAM_3 == 104
ASIC_REG_SOFT_RESET == 168

BAUD_RATE_12MHZ == 12000000
FREQUENCY_525MHZ == 525

TICKET_MASK_ALL_CORES == << 255, 255, 255, 255 >>
TICKET_MASK_256_CORES == << 0, 0, 0, 255 >>
\* 0x80008700
CORE_CONFIG_BASE == << 128, 0, 135, 0 >>
\* 0x800082AA
CORE_CONFIG_ENABLE == << 128, 0, 130, 170 >>
\* values of macros whose definitions are not in the header at hand
CORE_CONFIG_NONCE_OVF_DIS == << 128, 0, 141, 21 >>
SOFT_RESET_MASK == << 0, 0, 1, 240 >>
CoreParamValue == << 0, 0, 0, 9 >>

----------------------------------------------------------------------------
(* Bring-up as instruction sequences.  An instruction is [k, reg, val, fail]: *)
(*   k    "wr" broadcast register write, "inactive", "setaddr" (reg is the    *)
(*        address), "rd" register read from chip 0, "wr_rd" broadcast write   *)
(*        of a value that depends on the read, "wr_mod" broadcast write of    *)
(*        the word read with the masks val applied, "div" the interval        *)
(*        division,                                                           *)
(*        "enum_ret" the return of the enumeration, "fpga" an indirect FPGA   *)
(*        write (reg is the logical index), "err" a failing return            *)
(*   fail what a failed command does: "ignore" (the result is dropped or only *)
(*        logged), "count" (errors++), "ret" (the function returns -1),       *)
(*        "abort" (the stage returns -1)                                      *)

Ins(k, reg, val, fail) == [k |-> k, reg |-> reg, val |-> val, fail |-> fail]

Wr(reg, val, fail) == Ins("wr", reg, val, fail)

\* a call of a function whose failing return the caller treats as `how`
CallOf(prog, how) ==
    [i \in DOMAIN prog |-> IF prog[i].fail = "ret" THEN [prog[i] EXCEPT !.fail = how]
                           ELSE prog[i]]

\* mutation of bm1398_reset_chain_stage1 (sensitivity of C6): the power-control
\* bit is set before soft reset is re-enabled
reset_chain_stage1_swapped ==
    << Wr(ASIC_REG_CLK_CTRL, << 0, 0, 0, 0 >>, "ignore"),
       Wr(ASIC_REG_RESET_CTRL, << 0, 0, 0, 0 >>, "ignore"),
       Wr(ASIC_REG_CLK_CTRL, << 15, 64, 0, 0 >>, "ignore"),
       Wr(ASIC_REG_CLK_CTRL, << 240, 0, 0, 0 >>, "ignore"),
       Wr(ASIC_REG_RESET_CTRL, << 0, 0, 0, 8 >>, "ignore"),
       Wr(ASIC_REG_CLK_CTRL, << 240, 0, 4, 0 >>, "ignore"),
       Wr(ASIC_REG_TICKET_MASK, TICKET_MASK_ALL_CORES, "abort") >>

bm1398_reset_chain_stage1 ==
    << Wr(ASIC_REG_CLK_CTRL, << 0, 0, 0, 0 >>, "ignore"),
       Wr(ASIC_REG_RESET_CTRL, << 0, 0, 0, 0 >>, "ignore"),
       Wr(ASIC_REG_CLK_CTRL, << 15, 64, 0, 0 >>, "ignore"),
       Wr(ASIC_REG_CLK_CTRL, << 240, 0, 0, 0 >>, "ignore"),
       Wr(ASIC_REG_CLK_CTRL, << 240, 0, 4, 0 >>, "ignore"),
       Wr(ASIC_REG_RESET_CTRL, << 0, 0, 0, 8 >>, "ignore"),
       Wr(ASIC_REG_TICKET_MASK, TICKET_MASK_ALL_CORES, "abort") >>

\* reference / (baud_rate * 8) in uint32_t arithmetic: baud_rate * 8 is
\* 8 * x modulo 2^32 with x = baud_rate % 2^29 (x # 0), and it exceeds the
\* reference, a multiple of 8, exactly when x exceeds reference / 8
BaudQuotient(reference, baud_rate) ==
    LET x == baud_rate % 536870912
    IN  IF x > reference \div 8 THEN 0 ELSE reference \div (x * 8)

\* mutation of BaudDiv (sensitivity of C18): 3,000,000 baud itself takes
\* the 400 MHz reference
BaudDivInclusive(baud_rate) ==
    IF baud_rate >= 3000000
    THEN BaudQuotient(400000000, baud_rate) - 1
    ELSE BaudQuotient(25000000, baud_rate) - 1

\* baud_div of bm1398_set_baud_rate; -1 stands for 0xFFFFFFFF, the value the
\* subtraction wraps to (its remainders modulo 32 and 16 are the same)
BaudDiv(baud_rate) ==
    IF baud_rate > 3000000
    THEN BaudQuotient(400000000, baud_rate) - 1
    ELSE BaudQuotient(25000000, baud_rate) - 1

\* reg_val written to CLK_CTRL
BaudClkCtrl(baud_rate) ==
    LET baud_div == BaudDiv(baud_rate)
        hi == (baud_div \div 32) % 16
        lo == baud_div % 32
    IN  IF baud_rate > 3000000
        THEN << BitOr(240, hi), 1, lo, 0 >>
        ELSE << BitOr(240, hi), 0, BitOr(4, lo), 0 >>

\* a failed read, and a null pointer argument
NoWord == << >>

\* the PLL3 value written after the read: rd is the word read, or NoWord
Pll3Value(rd) ==
    IF rd = NoWord THEN << 192, 112, 1, 17 >>
    ELSE WordOr(WordOr(WordAnd(rd, << 255, 255, 0, 0 >>), << 0, 0, 1, 17 >>),
                << 192, 112, 0, 0 >>)

bm1398_set_baud_rate(baud_rate) ==
    IF baud_rate > 3000000
    THEN << Ins("rd", ASIC_REG_PLL_PARAM_3, ZeroWord, "ignore"),
            Ins("wr_rd", ASIC_REG_PLL_PARAM_3, ZeroWord, "ignore"),
            Wr(ASIC_REG_BAUD_CONFIG, << 6, 0, 143, 15 >>, "ignore"),
            Wr(ASIC_REG_CLK_CTRL, BaudClkCtrl(baud_rate), "ret") >>
    ELSE << Wr(ASIC_REG_CLK_CTRL, BaudClkCtrl(baud_rate), "ret") >>

\* mutation of RmwValue (sensitivity of C28): the bits are set first and
\* cleared afterwards
RmwValueSetFirst(value, clear_mask, set_mask) ==
    WordAnd(WordOr(value, set_mask), WordNot(clear_mask))

\* value &= ~clear_mask; value |= set_mask
RmwValue(value, clear_mask, set_mask) ==
    WordOr(WordAnd(value, WordNot(clear_mask)), set_mask)

\* the read from chip 0 and the broadcast write of the modified value; a
\* failed read or write makes the function return -1
bm1398_read_modify_write_register(reg_addr, clear_mask, set_mask) ==
    << Ins("rd", reg_addr, ZeroWord, "ret"),
       Ins("wr_mod", reg_addr, << clear_mask, set_mask >>, "ret") >>

\* mutation of PllFields (sensitivity of C16): the feedback divider follows
\* the target instead of falling back to the 525 MHz plan
PllFieldsScaled(freq_mhz) ==
    [refdiv_reg |-> 0, fbdiv_reg |-> (freq_mhz * 84) \div 525,
     postdiv1_reg |-> 1, postdiv2_reg |-> 0]

\* the divider fields bm1398_set_frequency chooses (register encoding)
PllFields(freq_mhz) ==
    IF freq_mhz = 525
    THEN [refdiv_reg |-> 0, fbdiv_reg |-> 84, postdiv1_reg |-> 1, postdiv2_reg |-> 0]
    ELSE [refdiv_reg |-> 0, fbdiv_reg |-> 84, postdiv1_reg |-> 1, postdiv2_reg |-> 0]

PllVco(f) == (25 * f.fbdiv_reg) \div (f.refdiv_reg + 1)

\* freq_actual = vco / (postdiv1_actual * postdiv2_actual), the actual
\* dividers being the stored fields plus one (exact for the fields chosen)
PllFreqActual(f) == PllVco(f) \div ((f.postdiv1_reg + 1) * (f.postdiv2_reg + 1))

PllValue(f) ==
    LET vco == PllVco(f)
        range == IF vco >= 2400 /\ vco <= 3200 THEN 16 ELSE 0
    IN  << BitOr(BitOr(64, (f.fbdiv_reg % 4096) \div 256), range),
           f.fbdiv_reg % 256,
           f.postdiv1_reg % 64,
           BitOr(f.postdiv2_reg % 8, (f.refdiv_reg % 8) * 16) >>

bm1398_set_frequency(freq_mhz) ==
    LET f == PllFields(freq_mhz)
        vco == PllVco(f)
    IN  IF ~(vco >= 2400 /\ vco <= 3200) /\ (vco < 1600 \/ vco > 3200)
        THEN << Ins("err", 0, ZeroWord, "ret") >>
        ELSE << Wr(ASIC_REG_PLL_PARAM_0, PllValue(f), "ret") >>

\* mutation of AddressInterval (sensitivity of C14): the fixed interval
\* CHIP_ADDRESS_INTERVAL
AddressIntervalFixed(num_chips) == 2

\* interval of bm1398_enumerate_chips (num_chips # 0)
AddressInterval(num_chips) ==
    LET interval == 256 \div num_chips
    IN  IF interval < 1 THEN 1 ELSE interval

\* mutation of bm1398_enumerate_chips (sensitivity of C15): the function
\* returns at the first set-address command that fails
enumerate_chips_stop_on_error(num_chips) ==
    << Ins("inactive", 0, ZeroWord, "ret"),
       Ins("div", num_chips, ZeroWord, "ignore") >>
    \o [i \in 1..(IF num_chips < 0 THEN 0 ELSE num_chips) |->
            Ins("setaddr", ((i - 1) * AddressInterval(num_chips)) % 256, ZeroWord, "ret")]
    \o << Ins("enum_ret", 0, ZeroWord, "ret") >>

bm1398_enumerate_chips(num_chips) ==
    << Ins("inactive", 0, ZeroWord, "ret"),
       Ins("div", num_chips, ZeroWord, "ignore") >>
    \o [i \in 1..(IF num_chips < 0 THEN 0 ELSE num_chips) |->
            Ins("setaddr", ((i - 1) * AddressInterval(num_chips)) % 256, ZeroWord, "count")]
    \o << Ins("enum_ret", 0, ZeroWord, "ret") >>

\* (0x1FFFF / FREQUENCY_525MHZ & 0x1FFFF) | 0x80000000
TimeoutReg == WordOr(ToWord((131071 \div FREQUENCY_525MHZ) % 131072), << 128, 0, 0, 0 >>)

\* CORE_CONFIG_BASE | ((1 & 3) << CORE_CONFIG_PULSE_MODE_SHIFT) | (0 & CORE_CONFIG_CLK_SEL_MASK)
CoreCfg == WordOr(CORE_CONFIG_BASE, << 0, 0, 0, 16 >>)

Stage2Head(diode_vdd_mux_sel) ==
    << Wr(ASIC_REG_DIODE_MUX, ToWord(diode_vdd_mux_sel), "abort"),
       Ins("inactive", 0, ZeroWord, "abort") >>

\* mutation of Stage2Enumerate (sensitivity of C7): the chips are enumerated
\* before the baud rate is lowered
Stage2EnumerateEarly(num_chips) ==
    CallOf(bm1398_enumerate_chips(num_chips), "abort")
    \o CallOf(bm1398_set_baud_rate(115200), "abort")

Stage2Enumerate(num_chips) ==
    CallOf(bm1398_set_baud_rate(115200), "abort")
    \o CallOf(bm1398_enumerate_chips(num_chips), "abort")

\* mutation of Stage2Core (sensitivity of C29): a failed IO-driver write ends
\* the stage
Stage2CoreStrict ==
    << Wr(ASIC_REG_CORE_CONFIG, << 128, 0, 133, 31 >>, "abort"),
       Wr(ASIC_REG_CORE_CONFIG, << 128, 0, 6, 0 >>, "abort"),
       Wr(ASIC_REG_CORE_CONFIG, CoreCfg, "abort"),
       Wr(ASIC_REG_CORE_PARAM, CoreParamValue, "abort"),
       Wr(ASIC_REG_IO_DRIVER, << 0, 0, 0, 16 >>, "abort"),
       Wr(ASIC_REG_PLL_PARAM_0, ZeroWord, "ignore"),
       Wr(ASIC_REG_PLL_PARAM_1, ZeroWord, "ignore"),
       Wr(ASIC_REG_PLL_PARAM_2, ZeroWord, "ignore"),
       Wr(ASIC_REG_PLL_PARAM_3, ZeroWord, "ignore") >>

Stage2Core ==
    << Wr(ASIC_REG_CORE_CONFIG, << 128, 0, 133, 31 >>, "abort"),
       Wr(ASIC_REG_CORE_CONFIG, << 128, 0, 6, 0 >>, "abort"),
       Wr(ASIC_REG_CORE_CONFIG, CoreCfg, "abort"),
       Wr(ASIC_REG_CORE_PARAM, CoreParamValue, "abort"),
       Wr(ASIC_REG_IO_DRIVER, << 0, 0, 0, 16 >>, "ignore"),
       Wr(ASIC_REG_PLL_PARAM_0, ZeroWord, "ignore"),
       Wr(ASIC_REG_PLL_PARAM_1, ZeroWord, "ignore"),
       Wr(ASIC_REG_PLL_PARAM_2, ZeroWord, "ignore"),
       Wr(ASIC_REG_PLL_PARAM_3, ZeroWord, "ignore") >>

Stage2Clocks ==
    CallOf(bm1398_set_frequency(FREQUENCY_525MHZ), "ignore")
    \o CallOf(bm1398_set_baud_rate(BAUD_RATE_12MHZ), "abort")

Stage2Tail ==
    << Wr(ASIC_REG_SOFT_RESET, SOFT_RESET_MASK, "ignore"),
       Wr(ASIC_REG_CLK_CTRL, << 240, 0, 0, 0 >>, "ignore"),
       Wr(ASIC_REG_CORE_CONFIG, CoreCfg, "ignore"),
       Wr(ASIC_REG_CORE_PARAM, CoreParamValue, "ignore"),
       Wr(ASIC_REG_CORE_CONFIG, CORE_CONFIG_ENABLE, "ignore"),
       Ins("fpga", FPGA_REG_TIMEOUT, TimeoutReg, "ignore"),
       Wr(ASIC_REG_TICKET_MASK, TICKET_MASK_256_CORES, "abort"),
       Wr(ASIC_REG_CORE_CONFIG, CORE_CONFIG_NONCE_OVF_DIS, "ignore") >>

bm1398_configure_chain_stage2(num_chips, diode_vdd_mux_sel) ==
    Stage2Head(diode_vdd_mux_sel) \o Stage2Enumerate(num_chips) \o Stage2Core
    \o Stage2Clocks \o Stage2Tail

\* diode_vdd_mux_sel passed by bm1398_init_chain
DiodeVddMuxSel == 3

StageProg(stage, c, chain) ==
    IF stage = 1 THEN bm1398_reset_chain_stage1
    ELSE bm1398_configure_chain_stage2(c.chips_per_chain[chain], DiodeVddMuxSel)

----------------------------------------------------------------------------
(* Work submission: bm1398_send_work *)

\* x << 3 on a uint32_t
Shl3(w) ==
    << ((w[1] * 8) % 256) + (w[2] \div 32), ((w[2] * 8) % 256) + (w[3] \div 32),
       ((w[3] * 8) % 256) + (w[4] \div 32), (w[4] * 8) % 256 >>

\* the bytes a little-endian store of the word w leaves in memory
StoreWord(w) == << w[4], w[3], w[2], w[1] >>

\* the uint32_t a little-endian load reads at byte offset 4 * i of m
LoadWord(m, i) == << m[4 * i + 4], m[4 * i + 3], m[4 * i + 2], m[4 * i + 1] >>

\* work_packet_t as laid out in memory before the word swap
WorkPacket(chain, work_id, work_data, midstates) ==
    << 1, BitOr(chain % 256, 128), 0, 0 >>
    \o StoreWord(bswap32(Shl3(work_id)))
    \o work_data
    \o midstates[1] \o midstates[2] \o midstates[3] \o midstates[4]

\* words[i] after the swap loop
WorkWords(packet) == [i \in 1..(Len(packet) \div 4) |-> bswap32(LoadWord(packet, i - 1))]

\* the argument checks at the head of bm1398_send_work
SendWorkArgsOk(c, chain, work_data, midstates) ==
    /\ c.initialized
    /\ work_data # NoWord
    /\ midstates # NoWord
    /\ chain >= 0 /\ chain < MAX_CHAINS

\* mutation of SendWorkWrites (sensitivity of C22): word i goes to logical
\* index 16 + i
SendWorkWritesIndexed(words) ==
    [i \in 1..Len(words) |->
        [idx |-> FPGA_REG_TW_WRITE_CMD_FIRST + (i - 1), word |-> words[i]]]

\* the sequence of (logical index, word) FIFO writes of one call
SendWorkWrites(words) ==
    [i \in 1..Len(words) |->
        [idx |-> IF i = 1 THEN FPGA_REG_TW_WRITE_CMD_FIRST ELSE FPGA_REG_TW_WRITE_CMD_REST,
         word |-> words[i]]]

bm1398_send_work(c, r, chain, work_id, work_data, midstates) ==
    IF ~SendWorkArgsOk(c, chain, work_data, midstates)
    THEN [ret |-> -1, regs |-> r, writes |-> << >>]
    ELSE LET writes == SendWorkWrites(WorkWords(WorkPacket(chain, work_id, work_data, midstates)))
         IN  [ret |-> 0, regs |-> FpgaWrites(c, r, writes), writes |-> writes]

----------------------------------------------------------------------------
(* Nonce collection: bm1398_get_nonce_count, bm1398_read_nonce and           *)
(* bm1398_read_nonces.  An entry of the response FIFO is eight bytes: the    *)
(* word read at REG_RETURN_NONCE, then the word read at REG_RETURN_NONCE + 1 *)
(* (a register response is kept as its first word alone).                    *)

EntryLow(e) == << e[1], e[2], e[3], e[4] >>

EntryHigh(e) == << e[5], e[6], e[7], e[8] >>

ZeroEntry == << 0, 0, 0, 0, 0, 0, 0, 0 >>

\* mutation of NonceIndicator (sensitivity of C24): bit 31, the
\* work-id-or-crc flag, is taken for the indicator
NonceIndicatorTopBit(nonce_low) == nonce_low[1] >= 128

\* nonce_low & NONCE_INDICATOR
NonceIndicator(nonce_low) == (nonce_low[4] \div 128) % 2 = 1

\* the record bm1398_read_nonce fills in: NONCE_CHAIN_NUMBER(nonce_low), the
\* whole low word, (nonce_high >> 16) & 0x7FFF
NonceRecord(nonce_low, nonce_high) ==
    [chain_id |-> nonce_low[4] % 16,
     nonce |-> nonce_low,
     work_id |-> (nonce_high[1] % 128) * 256 + nonce_high[2],
     chip_id |-> 0,
     core_id |-> 0]

\* a record of the caller's that no call has written
NoRecord == [chain_id |-> 255, nonce |-> NoWord, work_id |-> 65535, chip_id |-> 255,
             core_id |-> 255]

\* ok: ctx and the output pointer pass the check at the head; old: *nonce
\* before the call; the two words are those read from the register window
bm1398_read_nonce(ok, old, nonce_low, nonce_high) ==
    IF ~ok THEN [ret |-> -1, nonce |-> old]
    ELSE IF NonceIndicator(nonce_low)
    THEN [ret |-> 1, nonce |-> NonceRecord(nonce_low, nonce_high)]
    ELSE [ret |-> 0, nonce |-> old]

\* count & 0x7FFF, count the word read from REG_NONCE_NUMBER_IN_FIFO
bm1398_get_nonce_count(c, count) ==
    IF ~c.initialized THEN -1 ELSE (count[3] % 128) * 256 + count[4]

\* the hardware's side of a read of REG_RETURN_NONCE and the word after it:
\* the head of the FIFO, which the read removes, or the idle register content
ReadEntry(f, idle) ==
    IF f # << >> THEN [entry |-> Head(f), fifo |-> Tail(f)]
    ELSE [entry |-> idle, fifo |-> f]

\* mutation of DrainCount (sensitivity of C25): one read more than max_count
DrainCountPlusOne(available, max_count) ==
    IF available < max_count THEN available ELSE max_count + 1

\* available < max_count ? available : max_count
DrainCount(available, max_count) ==
    IF available < max_count THEN available ELSE max_count

\* the loop over i of bm1398_read_nonces; s is [ret, out, fifo, reads] with
\* ret the read_count so far, out the caller's array, reads the entries read
RECURSIVE ReadNoncesLoop(_, _, _, _)
ReadNoncesLoop(s, i, count, idle) ==
    IF i >= count THEN s
    ELSE LET e == ReadEntry(s.fifo, idle)
             r == bm1398_read_nonce(TRUE, s.out[s.ret + 1], EntryLow(e.entry),
                                    EntryHigh(e.entry))
         IN  ReadNoncesLoop([ret |-> IF r.ret > 0 THEN s.ret + 1 ELSE s.ret,
                             out |-> [s.out EXCEPT ![s.ret + 1] = r.nonce],
                             fifo |-> e.fifo,
                             reads |-> Append(s.reads, e.entry)],
                            i + 1, count, idle)

\* nonces: the caller's array, NoWord for a null pointer; count: the word the
\* occupancy register reads as; f, idle: the FIFO and the idle register content
bm1398_read_nonces(c, nonces_arr, max_count, count, f, idle) ==
    IF ~c.initialized \/ nonces_arr = NoWord
    THEN [ret |-> -1, out |-> nonces_arr, fifo |-> f, reads |-> << >>]
    ELSE LET available == bm1398_get_nonce_count(c, count)
             s == [ret |-> 0, out |-> nonces_arr, fifo |-> f, reads |-> << >>]
         IN  IF available <= 0 THEN s
             ELSE ReadNoncesLoop(s, 0, DrainCount(available, max_count), idle)

----------------------------------------------------------------------------
(* Inputs drawn by the callers *)

\* chain arguments: the three chains and one value on each side of the range
ChainArgs == -1..MAX_CHAINS

Chains == 0..(MAX_CHAINS - 1)

\* REG_HASH_ON_PLUG as read by bm1398_init: the chains detected
DetectedSets == { {0, 1, 2}, {0, 2} }

\* words a chip may answer to a register read
RespWords == { << 0, 0, 0, 0 >>, << 18, 52, 86, 120 >> }

WorkIds == { << 0, 0, 0, 1 >>, << 160, 0, 0, 3 >> }

WorkDatas == { [i \in 1..12 |-> i], [i \in 1..12 |-> 255 - i] }

MidstateSets == { [m \in 1..4 |-> [i \in 1..32 |-> 32 * m + i]] }

----------------------------------------------------------------------------
(* State *)

IdleCall ==
    [op |-> "idle", last |-> "none", chain |-> 0, stage |-> 0, ip |-> 0,
     sret |-> "none", s1 |-> "none", s2 |-> "none", errors |-> 0,
     rd |-> NoWord, ret |-> 0, args |-> << >>,
     polls |-> 0, reads |-> 0, hw |-> << >>]

IdleThreads == [t \in {1, 2} |-> [pc |-> "idle", chain |-> 0, cmd |-> << >>,
                                  i |-> 0, timeout |-> 0, ret |-> 0]]

NoCodec == [data |-> << >>, bits |-> 0, out |-> -1]

\* the solution side of the hardware: entry is put in the FIFO by the poll of
\* the occupancy register that follows `left` polls (NoArrival: nothing is on
\* its way); stuck is the word the occupancy register is stuck at (NoWord: it
\* reports the length of the FIFO); idle is what the response registers read
\* as while the FIFO is empty
NoNonce == [left |-> -1, entry |-> << >>, stuck |-> << >>, idle |-> ZeroEntry]

\* the array a caller hands to the drain, cleared
EmptyNonces == [i \in 1..MaxNonceSlots |-> NoRecord]

\* no drain has been made: n counts the nonce reads and drains, after is the
\* number of other calls made before the last one, op its name, count the
\* occupancy word it saw, reads the entries it read
NoDrain ==
    [n |-> 0, after |-> 0, op |-> "none", args |-> << >>, count |-> << >>, ret |-> 0,
     out |-> EmptyNonces, reads |-> << >>]

InitRegs == [o \in ModelledRegs |->
                CASE o = REG_BC_WRITE_COMMAND -> << 0, 130, 0, 0 >>
                  [] o = REG_BC_COMMAND_BUFFER -> << 82, 5, 0, 0 >>
                  [] o = REG_BC_COMMAND_BUFFER + 1 -> << 10, 0, 0, 0 >>
                  [] o = FPGA_TIMEOUT_OFFSET -> << 128, 1, 255, 255 >>
                  [] OTHER -> ZeroWord]

\* the context bm1398_init leaves when it succeeds
InitCtx(detected) ==
    [initialized |-> TRUE, fpga_regs |-> REGS_MAPPED,
     chips_per_chain |-> [c \in Chains |-> IF c \in detected THEN NumChips ELSE 0]]

Init ==
    /\ \E detected \in DetectedSets : ctx = InitCtx(detected)
    /\ regs = InitRegs
    /\ hwDelay = 0
    /\ fifo = << >>
    /\ call = IdleCall
    /\ th = IdleThreads
    /\ log = << >>
    /\ ready = [c \in Chains |-> FALSE]
    /\ faults = 0
    /\ calls = 0
    /\ hwNonce = NoNonce
    /\ nonces = NoDrain
    /\ codec = NoCodec

----------------------------------------------------------------------------
(* bm1398_init_chain and the stages it runs, one bus command per step *)

\* mutation of AfterStage1 (sensitivity of C4): the result of Stage 1 is not
\* looked at
AfterStage1Unchecked(sret) == "stage2"

\* what bm1398_init_chain does when Stage 1 has returned sret
AfterStage1(sret) == IF sret = "fail" THEN "return" ELSE "stage2"

Event(ev, frame, ok) ==
    [ev |-> ev, stage |-> call.stage, chain |-> call.chain, frame |-> frame, ok |-> ok]

\* the functions of the bring-up that are also called on their own
HelperOps == { "enumerate_chips", "set_baud_rate", "set_frequency", "read_modify_write" }

\* the body of a helper called with argument arg; its failing returns end it
HelperProg(op, arg) ==
    CASE op = "enumerate_chips" -> CallOf(bm1398_enumerate_chips(arg), "abort")
      [] op = "set_baud_rate" -> CallOf(bm1398_set_baud_rate(arg), "abort")
      [] op = "set_frequency" -> CallOf(bm1398_set_frequency(arg), "abort")
      [] op = "read_modify_write" ->
            CallOf(bm1398_read_modify_write_register(arg.reg_addr, arg.clear_mask,
                                                     arg.set_mask), "abort")

CurProg ==
    IF call.op = "init_chain" THEN StageProg(call.stage, ctx, call.chain)
    ELSE HelperProg(call.op, call.args[1])

Running ==
    /\ call.op \in { "init_chain" } \cup HelperOps
    /\ call.sret = "run"
    /\ call.ip <= Len(CurProg)

\* the locals after the current instruction, which failed or not
Advance(c, ins, failed) ==
    IF failed /\ ins.fail = "abort"
    THEN [c EXCEPT !.sret = "fail"]
    ELSE [c EXCEPT !.ip = c.ip + 1,
                   !.errors = IF failed /\ ins.fail = "count" THEN c.errors + 1 ELSE c.errors,
                   !.sret = IF c.ip + 1 > Len(CurProg) THEN "ok" ELSE "run"]

CallInitChain(chain) ==
    /\ call.op = "idle"
    /\ calls < MaxCalls
    /\ calls' = calls + 1
    /\ log' = << >>
    /\ IF ~ctx.initialized \/ chain < 0 \/ chain >= MAX_CHAINS
       THEN call' = [IdleCall EXCEPT !.last = "init_chain", !.chain = chain, !.ret = -1]
       ELSE call' = [IdleCall EXCEPT !.op = "init_chain", !.chain = chain, !.stage = 1,
                                     !.ip = 1, !.sret = "run"]
    /\ UNCHANGED <<ctx, regs, hwDelay, fifo, th, ready, faults, codec, hwNonce, nonces>>

InsFrame(ins) ==
    CASE ins.k = "wr" -> write_register_cmd(TRUE, 0, ins.reg, ins.val)
      [] ins.k = "wr_rd" -> write_register_cmd(TRUE, 0, ins.reg, Pll3Value(call.rd))
      [] ins.k = "wr_mod" ->
            write_register_cmd(TRUE, 0, ins.reg, RmwValue(call.rd, ins.val[1], ins.val[2]))
      [] ins.k = "inactive" -> chain_inactive_cmd
      [] ins.k = "setaddr" -> set_chip_address_cmd(ins.reg)
      [] ins.k = "rd" -> read_register_cmd(FALSE, 0, ins.reg)

\* a register write, chain-inactive or set-address command
ExecCmd ==
    /\ Running
    /\ \E ins \in { CurProg[call.ip] } :
           /\ ins.k \in {"wr", "wr_rd", "wr_mod", "inactive", "setaddr"}
           /\ \E lat \in Latencies(faults), cmd \in { InsFrame(ins) } :
              \E res \in { bm1398_send_uart_cmd(ctx, regs, hwDelay, call.chain, cmd, lat) } :
                    /\ regs' = res.regs
                    /\ hwDelay' = res.d
                    /\ faults' = FaultsAfter(faults, lat)
                    /\ log' = Append(log, Event("cmd", BufferBytes(res.regs, Len(cmd)),
                                                res.ret = 0))
                    /\ call' = Advance(call, ins, res.ret < 0)
    /\ UNCHANGED <<ctx, fifo, th, ready, calls, codec, hwNonce, nonces>>

\* arrival of a response that never comes
NoArrival == -1

\* mutation of FifoWait (sensitivity of C13): one poll per millisecond
RECURSIVE FifoWaitCoarse(_, _, _, _, _)
FifoWaitCoarse(timeout, k, f, arrive, word) ==
    IF timeout <= 0
    THEN [ret |-> -1, polls |-> k, reads |-> 0, value |-> NoWord, fifo |-> f]
    ELSE LET q == IF arrive # NoArrival /\ arrive <= k THEN Append(f, word) ELSE f
         IN  IF q # << >>
             THEN [ret |-> 0, polls |-> k + 1, reads |-> 1, value |-> EntryLow(Head(q)),
                   fifo |-> Tail(q)]
             ELSE FifoWaitCoarse(timeout - 1000, k + 1, f, arrive, word)

\* the wait loop of bm1398_read_register: timeout the microseconds left, k
\* the polls of REG_NONCE_NUMBER_IN_FIFO done so far, f the FIFO; polls and
\* reads count the reads of the occupancy and of the response register
RECURSIVE FifoWait(_, _, _, _, _)
FifoWait(timeout, k, f, arrive, word) ==
    IF timeout <= 0
    THEN [ret |-> -1, polls |-> k, reads |-> 0, value |-> NoWord, fifo |-> f]
    ELSE LET q == IF arrive # NoArrival /\ arrive <= k THEN Append(f, word) ELSE f
         IN  IF q # << >>
             THEN [ret |-> 0, polls |-> k + 1, reads |-> 1, value |-> EntryLow(Head(q)),
                   fifo |-> Tail(q)]
             ELSE FifoWait(timeout - 100, k + 1, f, arrive, word)

\* int available = regs[REG_NONCE_NUMBER_IN_FIFO]; available > 0
OccupancyPositive(w) == w[1] < 128 /\ w # ZeroWord

\* what the hardware may do with a read sent during a call: with the
\* occupancy register stuck, show the idle response registers or nothing;
\* else deliver the solution that is on its way, or else a chip's answer at
\* once, or nothing
CallArrivals(h, f) ==
    IF h.stuck # NoWord
    THEN IF OccupancyPositive(h.stuck) /\ f = << >>
         THEN { [at |-> 0, word |-> h.idle] }
         ELSE { [at |-> NoArrival, word |-> NoWord] }
    ELSE IF h.left # NoArrival THEN { [at |-> h.left, word |-> h.entry] }
    ELSE { [at |-> 0, word |-> w] : w \in RespWords }
         \cup { [at |-> NoArrival, word |-> NoWord] }

\* the wait of a read sent during a call, against the FIFO f: an occupancy
\* register stuck at a word that is not positive hides what the FIFO holds
ReadWait(f, h, resp) ==
    IF h.stuck # NoWord /\ ~OccupancyPositive(h.stuck)
    THEN [FifoWait(ReadPollBudget * 100, 0, << >>, NoArrival, NoWord) EXCEPT !.fifo = f]
    ELSE FifoWait(ReadPollBudget * 100, 0, f, resp.at, resp.word)

\* the solution side of the hardware after `polls` more polls of the
\* occupancy register
AfterPolls(h, polls) ==
    IF h.left = NoArrival THEN h
    ELSE IF polls > h.left THEN [h EXCEPT !.left = NoArrival]
    ELSE [h EXCEPT !.left = h.left - polls]

\* bm1398_read_register(ctx, chain, false, 0, reg, &value, 100) inside
\* bm1398_set_baud_rate and bm1398_read_modify_write_register; the wait
\* starts with 100 microseconds for each poll it may make
ExecRead ==
    /\ Running
    /\ \E ins \in { CurProg[call.ip] } :
           /\ ins.k = "rd"
           /\ \E lat \in Latencies(faults), resp \in CallArrivals(hwNonce, fifo) :
              \E res \in { bm1398_send_uart_cmd(ctx, regs, hwDelay, call.chain, InsFrame(ins), lat) } :
              \E w \in { IF res.ret < 0
                         THEN [ret |-> -1, polls |-> 0, reads |-> 0, value |-> NoWord,
                               fifo |-> fifo]
                         ELSE ReadWait(fifo, hwNonce, resp) } :
                    /\ regs' = res.regs
                    /\ hwDelay' = res.d
                    /\ faults' = FaultsAfter(faults, lat)
                    /\ log' = Append(log, Event("cmd", BufferBytes(res.regs, Len(InsFrame(ins))),
                                                res.ret = 0))
                    /\ call' = [Advance(call, ins, w.ret < 0) EXCEPT !.rd = w.value]
                    /\ fifo' = w.fifo
                    /\ hwNonce' = AfterPolls(hwNonce, w.polls)
    /\ UNCHANGED <<ctx, th, ready, calls, codec, nonces>>

\* interval = 256 / num_chips with num_chips # 0
ExecDiv ==
    /\ Running
    /\ CurProg[call.ip].k = "div"
    /\ CurProg[call.ip].reg # 0
    /\ call' = Advance(call, CurProg[call.ip], FALSE)
    /\ UNCHANGED <<ctx, regs, hwDelay, fifo, th, log, ready, faults, calls, codec, hwNonce, nonces>>

\* 256 / 0 is undefined: the division traps and the process dies, ...
ExecDivTrap ==
    /\ Running
    /\ CurProg[call.ip].k = "div"
    /\ CurProg[call.ip].reg = 0
    /\ call' = [call EXCEPT !.op = "crashed"]
    /\ UNCHANGED <<ctx, regs, hwDelay, fifo, th, log, ready, faults, calls, codec, hwNonce, nonces>>

\* ... or it yields some quotient and the address loop runs zero times
ExecDivAny ==
    /\ Running
    /\ CurProg[call.ip].k = "div"
    /\ CurProg[call.ip].reg = 0
    /\ call' = Advance(call, CurProg[call.ip], FALSE)
    /\ UNCHANGED <<ctx, regs, hwDelay, fifo, th, log, ready, faults, calls, codec, hwNonce, nonces>>

\* return errors > 0 ? -1 : 0, and a failing return with no command
ExecRet ==
    /\ Running
    /\ LET ins == CurProg[call.ip]
       IN  /\ ins.k \in {"enum_ret", "err"}
           /\ call' = Advance(call, ins, ins.k = "err" \/ call.errors > 0)
    /\ UNCHANGED <<ctx, regs, hwDelay, fifo, th, log, ready, faults, calls, codec, hwNonce, nonces>>

ExecFpga ==
    /\ Running
    /\ LET ins == CurProg[call.ip]
       IN  /\ ins.k = "fpga"
           /\ regs' = fpga_write_indirect(ctx, regs, ins.reg, ins.val)
           /\ log' = Append(log, Event("fpga", << ins.reg >> \o ins.val, TRUE))
           /\ call' = Advance(call, ins, FALSE)
    /\ UNCHANGED <<ctx, hwDelay, fifo, th, ready, faults, calls, codec, hwNonce, nonces>>

\* Stage 1 has returned
InitChainStage1Done ==
    /\ call.op = "init_chain" /\ call.stage = 1 /\ call.sret # "run"
    /\ IF AfterStage1(call.sret) = "return"
       THEN /\ call' = [call EXCEPT !.op = "idle", !.last = "init_chain", !.stage = 0,
                                    !.s1 = call.sret, !.sret = "none", !.ret = -1]
            /\ ready' = [ready EXCEPT ![call.chain] = FALSE]
       ELSE /\ call' = [call EXCEPT !.stage = 2, !.ip = 1, !.errors = 0,
                                    !.s1 = call.sret, !.sret = "run"]
            /\ ready' = ready
    /\ UNCHANGED <<ctx, regs, hwDelay, fifo, th, log, faults, calls, codec, hwNonce, nonces>>

\* Stage 2 has returned
InitChainStage2Done ==
    /\ call.op = "init_chain" /\ call.stage = 2 /\ call.sret # "run"
    /\ call' = [call EXCEPT !.op = "idle", !.last = "init_chain", !.stage = 0,
                            !.s2 = call.sret, !.sret = "none",
                            !.ret = IF call.sret = "fail" THEN -1 ELSE 0]
    /\ ready' = [ready EXCEPT ![call.chain] = (call.sret # "fail")]
    /\ UNCHANGED <<ctx, regs, hwDelay, fifo, th, log, faults, calls, codec, hwNonce, nonces>>

CallSendWork(chain, work_id, work_data, midstates) ==
    /\ call.op = "idle"
    /\ calls < MaxCalls
    /\ calls' = calls + 1
    /\ LET res == bm1398_send_work(ctx, regs, chain, work_id, work_data, midstates)
       IN  /\ regs' = res.regs
           /\ log' = [i \in 1..Len(res.writes) |->
                        [ev |-> "work", stage |-> 0, chain |-> chain,
                         frame |-> << res.writes[i].idx >> \o res.writes[i].word,
                         ok |-> TRUE]]
           /\ call' = [IdleCall EXCEPT !.last = "send_work", !.chain = chain, !.ret = res.ret,
                                       !.args = << work_id, work_data, midstates >>]
    /\ UNCHANGED <<ctx, hwDelay, fifo, th, ready, faults, codec, hwNonce, nonces>>

Next ==
    \/ \E chain \in ChainArgs : CallInitChain(chain)
    \/ ExecCmd
    \/ ExecRead
    \/ ExecDiv
    \/ ExecDivTrap
    \/ ExecDivAny
    \/ ExecRet
    \/ ExecFpga
    \/ InitChainStage1Done
    \/ InitChainStage2Done
    \/ \E chain \in ChainArgs, work_id \in WorkIds, work_data \in WorkDatas,
          midstates \in MidstateSets :
            CallSendWork(chain, work_id, work_data, midstates)

Spec == Init /\ [][Next]_vars

----------------------------------------------------------------------------
(* The checksum on its own: inputs drawn in the initial state, one action  *)
(* applying bm1398_crc5 to them                                            *)

CodecBytes == { 0, 5, 83, 128, 255 }

RECURSIVE SeqsUpTo(_, _)
SeqsUpTo(S, n) ==
    IF n = 0 THEN { << >> }
    ELSE LET shorter == SeqsUpTo(S, n - 1)
         IN  shorter \cup { Append(q, x) : q \in shorter, x \in S }

\* generated inputs, and the three vectors of test_crc5
CodecInputs ==
    (SeqsUpTo(CodecBytes, MaxCodecBytes) \ { << >> })
    \cup { << 83, 5, 0, 0 >>, << 64, 5, 0, 0 >>, << 81, 9, 0, 20, 255, 255, 255, 255 >> }

InitCodec ==
    /\ ctx = InitCtx({0, 1, 2})
    /\ regs = InitRegs
    /\ hwDelay = 0
    /\ fifo = << >>
    /\ call = IdleCall
    /\ th = IdleThreads
    /\ log = << >>
    /\ ready = [c \in Chains |-> FALSE]
    /\ faults = 0
    /\ calls = 0
    /\ hwNonce = NoNonce
    /\ nonces = NoDrain
    /\ \E data \in CodecInputs, bits \in 0..64 :
          /\ bits <= 8 * Len(data)
          /\ codec = [data |-> data, bits |-> bits, out |-> -1]

CodecCrc5 ==
    /\ codec.out = -1
    /\ codec' = [codec EXCEPT !.out = bm1398_crc5(codec.data, codec.bits)]
    /\ UNCHANGED <<ctx, regs, hwDelay, fifo, call, th, log, ready, faults, calls, hwNonce, nonces>>

NextCodec == CodecCrc5

SpecCodec == InitCodec /\ [][NextCodec]_vars

----------------------------------------------------------------------------
(* The command and register-access functions called directly, with drawn   *)
(* arguments, on a context that bm1398_init did or did not set up          *)

\* the context after a bm1398_init that could not open the device
NoCtx ==
    [initialized |-> FALSE, fpga_regs |-> REGS_NULL,
     chips_per_chain |-> [c \in Chains |-> 0]]

CmdChipAddrs == { 0, 255 }

CmdRegAddrs == { ASIC_REG_TICKET_MASK, ASIC_REG_SOFT_RESET }

CmdValues == { ZeroWord, << 18, 52, 86, 120 >>, TICKET_MASK_ALL_CORES }

\* a response left in the FIFO by an earlier command
StaleWord == << 222, 173, 190, 239 >>

InitCmd ==
    /\ ctx \in { InitCtx({0, 1, 2}), NoCtx }
    /\ regs = InitRegs
    /\ hwDelay = 0
    /\ fifo \in { << >>, << StaleWord >> }
    /\ call = IdleCall
    /\ th = IdleThreads
    /\ log = << >>
    /\ ready = [c \in Chains |-> FALSE]
    /\ faults = 0
    /\ calls = 0
    /\ hwNonce = NoNonce
    /\ nonces = NoDrain
    /\ codec = NoCodec

CmdDone(name, chain, args, ret) ==
    [IdleCall EXCEPT !.last = name, !.chain = chain, !.args = args, !.ret = ret]

\* the frame the hardware was triggered with, if the transport got that far
CmdLog(chain, cmd, res) ==
    IF res.sent
    THEN << [ev |-> "cmd", stage |-> 0, chain |-> chain,
             frame |-> BufferBytes(res.regs, Len(cmd)), ok |-> res.ret = 0] >>
    ELSE << >>

\* a function that builds cmd and returns bm1398_send_uart_cmd(ctx, chain, cmd)
CmdSend(name, chain, args, cmd) ==
    /\ call.op = "idle"
    /\ calls < MaxCalls
    /\ calls' = calls + 1
    /\ \E lat \in Latencies(faults) :
         \E res \in { bm1398_send_uart_cmd(ctx, regs, hwDelay, chain, cmd, lat) } :
            /\ regs' = res.regs
            /\ hwDelay' = res.d
            /\ faults' = IF res.sent /\ IsFault(lat) THEN faults + 1 ELSE faults
            /\ log' = CmdLog(chain, cmd, res)
            /\ call' = CmdDone(name, chain, args, res.ret)
    /\ UNCHANGED <<ctx, fifo, th, ready, codec, hwNonce, nonces>>

\* a call that fails its own argument check before building anything
CmdReject(name, chain, args) ==
    /\ call.op = "idle"
    /\ calls < MaxCalls
    /\ calls' = calls + 1
    /\ log' = << >>
    /\ call' = CmdDone(name, chain, args, -1)
    /\ UNCHANGED <<ctx, regs, hwDelay, fifo, th, ready, faults, codec, hwNonce, nonces>>

bm1398_chain_inactive(chain) ==
    CmdSend("chain_inactive", chain, << >>, chain_inactive_cmd)

bm1398_set_chip_address(chain, addr) ==
    CmdSend("set_chip_address", chain, << addr >>, set_chip_address_cmd(addr))

bm1398_write_register(chain, broadcast, chip_addr, reg_addr, value) ==
    IF ~ctx.initialized
    THEN CmdReject("write_register", chain, << broadcast, chip_addr, reg_addr, value >>)
    ELSE CmdSend("write_register", chain, << broadcast, chip_addr, reg_addr, value >>,
                 write_register_cmd(broadcast, chip_addr, reg_addr, value))

\* what the chip does with a read: its word lands in the FIFO after `at`
\* polls of the occupancy register have seen it empty, or never
ReadArrivals ==
    { [at |-> 0, word |-> << 18, 52, 86, 120 >>], [at |-> 9, word |-> << 0, 0, 0, 0 >>],
      [at |-> 10, word |-> << 18, 52, 86, 120 >>], [at |-> NoArrival, word |-> NoWord] }

\* timeout_ms arguments
ReadTimeouts == { 0, 1 }

\* has_value: the value pointer is not null; *value is call.rd
bm1398_read_register(chain, broadcast, chip_addr, reg_addr, has_value, timeout_ms) ==
    IF ~ctx.initialized \/ ~has_value
    THEN CmdReject("read_register", chain, << broadcast, chip_addr, reg_addr, timeout_ms >>)
    ELSE
    /\ call.op = "idle"
    /\ calls < MaxCalls
    /\ calls' = calls + 1
    /\ \E lat \in Latencies(faults), resp \in ReadArrivals :
         \E cmd \in { read_register_cmd(broadcast, chip_addr, reg_addr) } :
         \E res \in { bm1398_send_uart_cmd(ctx, regs, hwDelay, chain, cmd, lat) } :
         \E w \in { IF res.ret < 0
                    THEN [ret |-> -1, polls |-> 0, reads |-> 0, value |-> NoWord, fifo |-> fifo]
                    ELSE FifoWait(timeout_ms * 1000, 0, fifo, resp.at, resp.word) } :
            /\ regs' = res.regs
            /\ hwDelay' = res.d
            /\ faults' = IF res.sent /\ IsFault(lat) THEN faults + 1 ELSE faults
            /\ log' = CmdLog(chain, cmd, res)
            /\ fifo' = w.fifo
            /\ call' = [CmdDone("read_register", chain,
                                << broadcast, chip_addr, reg_addr, timeout_ms >>, w.ret)
                          EXCEPT !.rd = w.value, !.polls = w.polls, !.reads = w.reads,
                                 !.hw = [fifo |-> fifo, at |-> resp.at, word |-> resp.word]]
    /\ UNCHANGED <<ctx, th, ready, codec, hwNonce, nonces>>

NextCmd ==
    \/ \E chain \in ChainArgs : bm1398_chain_inactive(chain)
    \/ \E chain \in ChainArgs, addr \in CmdChipAddrs : bm1398_set_chip_address(chain, addr)
    \/ \E chain \in ChainArgs, broadcast \in BOOLEAN, chip_addr \in CmdChipAddrs,
          reg_addr \in CmdRegAddrs, value \in CmdValues :
            bm1398_write_register(chain, broadcast, chip_addr, reg_addr, value)
    \/ \E chain \in ChainArgs, broadcast \in BOOLEAN, chip_addr \in CmdChipAddrs,
          reg_addr \in CmdRegAddrs, has_value \in BOOLEAN, timeout_ms \in ReadTimeouts :
            bm1398_read_register(chain, broadcast, chip_addr, reg_addr, has_value, timeout_ms)

SpecCmd == InitCmd /\ [][NextCmd]_vars

----------------------------------------------------------------------------
(* bm1398_enumerate_chips, bm1398_set_baud_rate and bm1398_set_frequency    *)
(* called on their own with drawn arguments, one bus command per step       *)

\* helper calls in one behaviour
MaxHelperCalls == 1
\* largest chip count drawn
MaxEnumChips == 129

\* longest chain enumerated on hardware that may fail a command; longer
\* chains are enumerated with the fault budget used up
MaxFaultyChips == 8

\* num_chips arguments
EnumChipCounts == -1..MaxEnumChips

\* the fault count a helper call starts from
HelperFaults(op, arg) ==
    IF op = "enumerate_chips" /\ arg > MaxFaultyChips THEN MaxFaults ELSE 0

\* freq_mhz arguments
FreqArgs == { 0, 100, 525, 526, 650, 4095 }

\* baud_rate arguments: both regimes and their boundary, divisors on both
\* sides of 511, a quotient of 0, and a target whose eightfold wraps
\* (2^29 + 100); none whose eightfold is 0 modulo 2^32
BaudArgs ==
    { 100, 6000, 6104, 115200, 3000000, 3000001, 12000000, 50000000, 60000000,
      536871012 }

\* arguments of the read-modify-write: masks that share bit 4, and a clear
\* of every bit
RmwArgs ==
    { [reg_addr |-> ASIC_REG_CORE_CONFIG, clear_mask |-> << 0, 0, 0, 48 >>,
       set_mask |-> << 128, 0, 0, 20 >>],
      [reg_addr |-> ASIC_REG_TICKET_MASK, clear_mask |-> << 255, 255, 255, 255 >>,
       set_mask |-> ZeroWord] }

InitHelper ==
    /\ ctx = InitCtx({0, 1, 2})
    /\ regs = InitRegs
    /\ hwDelay = 0
    /\ fifo = << >>
    /\ call = IdleCall
    /\ th = IdleThreads
    /\ log = << >>
    /\ ready = [c \in Chains |-> FALSE]
    /\ faults = 0
    /\ calls = 0
    /\ hwNonce = NoNonce
    /\ nonces = NoDrain
    /\ codec = NoCodec

\* entry of a helper: the context check, then the body from its first statement
CallHelper(op, chain, arg) ==
    /\ call.op = "idle"
    /\ calls < MaxHelperCalls
    /\ calls' = calls + 1
    /\ log' = << >>
    /\ IF ~ctx.initialized
       THEN call' = [IdleCall EXCEPT !.last = op, !.chain = chain, !.args = << arg >>,
                                     !.ret = -1]
       ELSE call' = [IdleCall EXCEPT !.op = op, !.chain = chain, !.args = << arg >>,
                                     !.ip = 1, !.sret = "run"]
    /\ faults' = IF faults = HwStuckForever THEN faults ELSE HelperFaults(op, arg)
    /\ UNCHANGED <<ctx, regs, hwDelay, fifo, th, ready, codec, hwNonce, nonces>>

\* the helper has returned: -1 from a failing return, 0 from the end of its body
HelperDone ==
    /\ call.op \in HelperOps
    /\ call.sret # "run"
    /\ call' = [call EXCEPT !.op = "idle", !.last = call.op, !.sret = "none",
                            !.ret = IF call.sret = "fail" THEN -1 ELSE 0]
    /\ UNCHANGED <<ctx, regs, hwDelay, fifo, th, log, ready, faults, calls, codec, hwNonce, nonces>>

NextHelper ==
    \/ \E num_chips \in EnumChipCounts : CallHelper("enumerate_chips", 0, num_chips)
    \/ \E freq_mhz \in FreqArgs : CallHelper("set_frequency", 0, freq_mhz)
    \/ \E baud_rate \in BaudArgs : CallHelper("set_baud_rate", 0, baud_rate)
    \/ \E masks \in RmwArgs : CallHelper("read_modify_write", 0, masks)
    \/ ExecCmd
    \/ ExecRead
    \/ ExecDiv
    \/ ExecDivTrap
    \/ ExecDivAny
    \/ ExecRet
    \/ HelperDone

SpecHelper == InitHelper /\ [][NextHelper]_vars

----------------------------------------------------------------------------
(* The functions that use the register window directly, called on their    *)
(* own with drawn arguments: work submission, nonce collection and the     *)
(* indirect register access, against a FIFO and an occupancy register that *)
(* the hardware fills as it likes                                          *)

\* the hardware's side of a read of REG_NONCE_NUMBER_IN_FIFO: the solution on
\* its way arrives when its polls are used up
PollFifo(f, h) ==
    IF h.left = 0 THEN [fifo |-> Append(f, h.entry), nonce |-> [h EXCEPT !.left = -1]]
    ELSE IF h.left > 0 THEN [fifo |-> f, nonce |-> [h EXCEPT !.left = h.left - 1]]
    ELSE [fifo |-> f, nonce |-> h]

\* the word that read returns
Occupancy(f, h) == IF h.stuck # NoWord THEN h.stuck ELSE ToWord(Len(f))

\* FIFO entries: two with the indicator bit set, and one with every bit but
\* the indicator set
NonceEntries ==
    { << 18, 52, 86, 129, 128, 5, 255, 255 >>, << 0, 0, 0, 250, 255, 255, 0, 0 >>,
      << 255, 255, 255, 127, 255, 255, 255, 255 >> }

FifoContents == { q \in SeqsUpTo(NonceEntries, 2) : Len(q) < 2 \/ q[1] # q[2] }

\* words the occupancy register may be stuck at: 0, 0x8000 (0 once masked),
\* 2, 0x00018002 (2 once masked) and 0xFFFFFFFF
OccupancyWords ==
    { ZeroWord, << 0, 0, 128, 0 >>, << 0, 0, 0, 2 >>, << 0, 1, 128, 2 >>,
      << 255, 255, 255, 255 >> }

\* idle content of the response registers: zero, and an indicator left set
IdleEntries == { ZeroEntry, << 0, 0, 0, 132, 0, 7, 0, 0 >> }

\* max_count arguments
MaxCounts == -1..(MaxNonceSlots - 1)

\* logical_index arguments: both ends of the map and one value beyond each
FpgaIndexArgs == { -1, 0, FPGA_REG_TW_WRITE_CMD_FIRST, FPGA_REG_TW_WRITE_CMD_REST,
                   FPGA_REG_TIMEOUT, FPGA_REGISTER_MAP_SIZE - 1, FPGA_REGISTER_MAP_SIZE }

InitFifo ==
    /\ ctx \in { InitCtx({0, 1, 2}), NoCtx }
    /\ regs = InitRegs
    /\ hwDelay = 0
    /\ fifo \in FifoContents
    /\ call = IdleCall
    /\ th = IdleThreads
    /\ log = << >>
    /\ ready = [c \in Chains |-> FALSE]
    /\ faults = 0
    /\ calls = 0
    /\ codec = NoCodec
    /\ \E stuck \in OccupancyWords \cup { NoWord }, idle \in IdleEntries :
          hwNonce = [NoNonce EXCEPT !.stuck = stuck, !.idle = idle]
    /\ nonces = NoDrain

\* bm1398_read_nonce(ctx, nonce) on a cleared record
CallReadNonce(has_nonce) ==
    /\ call.op = "idle"
    /\ nonces.n < MaxDrains
    /\ \E ok \in { ctx.initialized /\ has_nonce } :
       \E e \in { IF ok THEN ReadEntry(fifo, hwNonce.idle)
                  ELSE [entry |-> << >>, fifo |-> fifo] } :
       \E res \in { bm1398_read_nonce(ok, NoRecord,
                                      IF ok THEN EntryLow(e.entry) ELSE NoWord,
                                      IF ok THEN EntryHigh(e.entry) ELSE NoWord) } :
          /\ fifo' = e.fifo
          /\ nonces' = [n |-> nonces.n + 1, after |-> calls, op |-> "read_nonce",
                        args |-> << has_nonce >>, count |-> << >>, ret |-> res.ret,
                        out |-> [EmptyNonces EXCEPT ![1] = res.nonce],
                        reads |-> IF ok THEN << e.entry >> ELSE << >>]
    /\ UNCHANGED <<ctx, regs, hwDelay, call, th, log, ready, faults, calls, codec, hwNonce>>

\* bm1398_read_nonces(ctx, nonces, max_count) on a cleared array
CallReadNonces(has_nonces, max_count) ==
    /\ call.op = "idle"
    /\ nonces.n < MaxDrains
    /\ \E ok \in { ctx.initialized /\ has_nonces } :
       \E hw \in { IF ok THEN PollFifo(fifo, hwNonce) ELSE [fifo |-> fifo, nonce |-> hwNonce] } :
       \E count \in { IF ok THEN Occupancy(hw.fifo, hw.nonce) ELSE NoWord } :
       \E res \in { bm1398_read_nonces(ctx, IF has_nonces THEN EmptyNonces ELSE NoWord,
                                       max_count, count, hw.fifo, hwNonce.idle) } :
          /\ fifo' = res.fifo
          /\ hwNonce' = hw.nonce
          /\ nonces' = [n |-> nonces.n + 1, after |-> calls, op |-> "read_nonces",
                        args |-> << has_nonces, max_count >>, count |-> count,
                        ret |-> res.ret, out |-> res.out, reads |-> res.reads]
    /\ UNCHANGED <<ctx, regs, hwDelay, call, th, log, ready, faults, calls, codec>>

\* fpga_read_indirect(ctx, logical_index): rd is the value returned, reads the
\* number of reads of the register window
CallFpgaRead(logical_index) ==
    /\ call.op = "idle"
    /\ calls < MaxWindowCalls
    /\ calls' = calls + 1
    /\ log' = << >>
    /\ \E hw \in RespWords :
       \E res \in { fpga_read_indirect(ctx, regs, logical_index, hw) } :
          call' = [CmdDone("fpga_read_indirect", 0, << logical_index >>, 0)
                     EXCEPT !.rd = res.value, !.reads = IF res.read THEN 1 ELSE 0]
    /\ UNCHANGED <<ctx, regs, hwDelay, fifo, th, ready, faults, codec, hwNonce, nonces>>

\* fpga_write_indirect(ctx, logical_index, value): hw keeps the register
\* window as it was before the call
CallFpgaWrite(logical_index, value) ==
    /\ call.op = "idle"
    /\ calls < MaxWindowCalls
    /\ calls' = calls + 1
    /\ log' = << >>
    /\ regs' = fpga_write_indirect(ctx, regs, logical_index, value)
    /\ call' = [CmdDone("fpga_write_indirect", 0, << logical_index, value >>, 0)
                  EXCEPT !.hw = regs]
    /\ UNCHANGED <<ctx, hwDelay, fifo, th, ready, faults, codec, hwNonce, nonces>>

NextFifo ==
    \/ \E chain \in ChainArgs, work_data \in WorkDatas \cup { NoWord },
          midstates \in MidstateSets \cup { NoWord } :
            /\ calls < MaxWindowCalls
            /\ CallSendWork(chain, << 0, 0, 0, 1 >>, work_data, midstates)
    \/ \E has_nonce \in BOOLEAN : CallReadNonce(has_nonce)
    \/ \E has_nonces \in BOOLEAN, max_count \in MaxCounts :
            CallReadNonces(has_nonces, max_count)
    \/ \E logical_index \in FpgaIndexArgs : CallFpgaRead(logical_index)
    \/ \E logical_index \in FpgaIndexArgs : CallFpgaWrite(logical_index, << 18, 52, 86, 120 >>)

SpecFifo == InitFifo /\ [][NextFifo]_vars

----------------------------------------------------------------------------
(* Bring-up, work submission and nonce drain against a register window that *)
(* completes every command within the poll budget, has no chip answering    *)
(* reads, and puts one solution in the FIFO after a number of polls of the  *)
(* occupancy register                                                       *)

\* the solution: indicator set, chain 1, job id 5
FakeNonce == << 18, 52, 86, 129, 0, 5, 0, 0 >>

\* polls of the occupancy register that see the FIFO empty before the
\* solution shows: fewer than, as many as, and more than one read makes
FakePolls == 0..(ReadPollBudget + 1)

InitE2E ==
    /\ ctx = InitCtx({0, 1, 2})
    /\ regs = InitRegs
    /\ hwDelay = 0
    /\ fifo = << >>
    /\ call = IdleCall
    /\ th = IdleThreads
    /\ log = << >>
    /\ ready = [c \in Chains |-> FALSE]
    /\ faults = MaxFaults
    /\ calls = 0
    /\ codec = NoCodec
    /\ \E n \in FakePolls : hwNonce = [NoNonce EXCEPT !.left = n, !.entry = FakeNonce]
    /\ nonces = NoDrain

NextE2E ==
    \/ \E chain \in Chains : CallInitChain(chain)
    \/ ExecCmd
    \/ ExecRead
    \/ ExecDiv
    \/ ExecRet
    \/ ExecFpga
    \/ InitChainStage1Done
    \/ InitChainStage2Done
    \/ \E chain \in Chains, work_id \in WorkIds, work_data \in WorkDatas,
          midstates \in MidstateSets :
            CallSendWork(chain, work_id, work_data, midstates)
    \/ CallReadNonces(TRUE, MaxNonceSlots - 1)

SpecE2E == InitE2E /\ [][NextE2E]_vars

----------------------------------------------------------------------------
(* Two threads inside bm1398_send_uart_cmd at once, each on a chain of its *)
(* own, interleaved at the register accesses.  The driver takes no lock;   *)
(* the callers serialize per chain only.                                   *)

Threads == { 1, 2 }

ConcFrames ==
    { chain_inactive_cmd,
      set_chip_address_cmd(2),
      write_register_cmd(TRUE, 0, ASIC_REG_TICKET_MASK, TICKET_MASK_ALL_CORES) }

\* thread t enters bm1398_send_uart_cmd(ctx, chain, cmd, len)
ThCall(t, chain, cmd) ==
    /\ th[t].pc = "idle"
    /\ calls < MaxCalls
    /\ \A o \in Threads \ {t} : th[o].pc # "idle" => th[o].chain # chain
    /\ UartArgsOk(ctx, chain, cmd)
    /\ th' = [th EXCEPT ![t] = UartEnter(chain, cmd)]
    /\ calls' = calls + 1
    /\ UNCHANGED <<ctx, regs, hwDelay, fifo, call, log, ready, faults, codec, hwNonce, nonces>>

\* one store of a command word into the shared command buffer
ThBuf(t) ==
    /\ th[t].pc = "buf"
    /\ \E n \in { UartStep([u |-> th[t], regs |-> regs, d |-> hwDelay], 0) } :
         /\ th' = [th EXCEPT ![t] = n.u]
         /\ regs' = n.regs
    /\ UNCHANGED <<ctx, hwDelay, fifo, call, log, ready, faults, calls, codec, hwNonce, nonces>>

\* the store of the trigger: the hardware latches the buffer as it is now
ThTrig(t) ==
    /\ th[t].pc = "trig"
    /\ \E lat \in Latencies(faults) :
         \E n \in { UartStep([u |-> th[t], regs |-> regs, d |-> hwDelay], lat) } :
            /\ th' = [th EXCEPT ![t] = n.u]
            /\ regs' = n.regs
            /\ hwDelay' = n.d
            /\ faults' = FaultsAfter(faults, lat)
            /\ log' = Append(log, [ev |-> "trigger", thread |-> t, chain |-> th[t].chain,
                                   frame |-> BufferBytes(regs, Len(th[t].cmd)),
                                   ok |-> BufferBytes(regs, Len(th[t].cmd)) = th[t].cmd])
    /\ UNCHANGED <<ctx, fifo, call, ready, calls, codec, hwNonce, nonces>>

\* one evaluation of the wait loop's condition
ThPoll(t) ==
    /\ th[t].pc = "poll"
    /\ \E n \in { UartStep([u |-> th[t], regs |-> regs, d |-> hwDelay], 0) } :
         /\ th' = [th EXCEPT ![t] = n.u]
         /\ regs' = n.regs
         /\ hwDelay' = n.d
    /\ UNCHANGED <<ctx, fifo, call, log, ready, faults, calls, codec, hwNonce, nonces>>

ThReturn(t) ==
    /\ th[t].pc = "ret"
    /\ th' = [th EXCEPT ![t] = [IdleThreads[t] EXCEPT !.ret = th[t].ret]]
    /\ UNCHANGED <<ctx, regs, hwDelay, fifo, call, log, ready, faults, calls, codec, hwNonce, nonces>>

NextConc ==
    \/ \E t \in Threads, chain \in Chains, cmd \in ConcFrames : ThCall(t, chain, cmd)
    \/ \E t \in Threads : ThBuf(t)
    \/ \E t \in Threads : ThTrig(t)
    \/ \E t \in Threads : ThPoll(t)
    \/ \E t \in Threads : ThReturn(t)

SpecConc == Init /\ [][NextConc]_vars

----------------------------------------------------------------------------
(* Termination: every operation against hardware that misbehaves for good,  *)
(* under fair scheduling of the code that is running.  The two wait loops   *)
(* are stepped one iteration at a time in the threads; the calls that are   *)
(* made of commands run one command at a time.                              *)

\* mutation of ReadWaitNext (sensitivity of C27): the wait of
\* bm1398_read_register does not use up its budget
ReadWaitNextStalled(timeout) == timeout

\* usleep(100); timeout -= 100
ReadWaitNext(timeout) == timeout - 100

\* what the hardware does for the whole behaviour: faults the fault count it
\* starts from, stuck the word its occupancy register is stuck at, left the
\* polls before a response shows.  In turn: sound and silent, one command
\* failing, the ready bit never clearing, the occupancy stuck at 0, stuck at
\* 2, stuck at 0xFFFFFFFF, and a response that shows late
HwModes ==
    { [faults |-> MaxFaults, stuck |-> NoWord, left |-> NoArrival],
      [faults |-> 0, stuck |-> NoWord, left |-> NoArrival],
      [faults |-> HwStuckForever, stuck |-> NoWord, left |-> NoArrival],
      [faults |-> MaxFaults, stuck |-> ZeroWord, left |-> NoArrival],
      [faults |-> MaxFaults, stuck |-> << 0, 0, 0, 2 >>, left |-> NoArrival],
      [faults |-> MaxFaults, stuck |-> << 255, 255, 255, 255 >>, left |-> NoArrival],
      [faults |-> MaxFaults, stuck |-> NoWord, left |-> 1] }

\* frames the threads send: one that is not a read, and a read
LiveFrames == { chain_inactive_cmd, read_register_cmd(FALSE, 0, ASIC_REG_PLL_PARAM_3) }

\* num_chips arguments of the enumeration called on its own
LiveChipCounts == { 1, NumChips, 5 }

InitLive ==
    /\ ctx = InitCtx({0, 1, 2})
    /\ regs = InitRegs
    /\ hwDelay = 0
    /\ fifo = << >>
    /\ call = IdleCall
    /\ th = IdleThreads
    /\ log = << >>
    /\ ready = [c \in Chains |-> FALSE]
    /\ calls = 0
    /\ codec = NoCodec
    /\ nonces = NoDrain
    /\ \E m \in HwModes :
          /\ faults = m.faults
          /\ hwNonce = [NoNonce EXCEPT !.stuck = m.stuck, !.left = m.left,
                                       !.entry = FakeNonce]

\* bm1398_send_uart_cmd has returned into bm1398_read_register, which
\* returns its failure or starts the wait for the response
ThReadWait(t) ==
    /\ th[t].pc = "ret"
    /\ th[t].cmd[1] \in { CMD_PREAMBLE_READ_REG, CMD_PREAMBLE_READ_BCAST }
    /\ IF th[t].ret < 0
       THEN th' = [th EXCEPT ![t].pc = "rret"]
       ELSE th' = [th EXCEPT ![t].pc = "wait", ![t].timeout = ReadPollBudget * 100]
    /\ UNCHANGED <<ctx, regs, hwDelay, fifo, call, log, ready, faults, calls, codec, hwNonce, nonces>>

\* the test and one iteration of the wait loop of bm1398_read_register
ThReadPoll(t) ==
    /\ th[t].pc = "wait"
    /\ IF th[t].timeout <= 0
       THEN /\ th' = [th EXCEPT ![t].pc = "rret", ![t].ret = -1]
            /\ UNCHANGED <<fifo, hwNonce>>
       ELSE \E hw \in { PollFifo(fifo, hwNonce) } :
              IF OccupancyPositive(Occupancy(hw.fifo, hw.nonce))
              THEN /\ fifo' = ReadEntry(hw.fifo, hw.nonce.idle).fifo
                   /\ hwNonce' = hw.nonce
                   /\ th' = [th EXCEPT ![t].pc = "rret", ![t].ret = 0]
              ELSE /\ fifo' = hw.fifo
                   /\ hwNonce' = hw.nonce
                   /\ th' = [th EXCEPT ![t].timeout = ReadWaitNext(th[t].timeout)]
    /\ UNCHANGED <<ctx, regs, hwDelay, call, log, ready, faults, calls, codec, nonces>>

\* bm1398_read_register returns
ThReadReturn(t) ==
    /\ th[t].pc = "rret"
    /\ th' = [th EXCEPT ![t] = [IdleThreads[t] EXCEPT !.ret = th[t].ret]]
    /\ UNCHANGED <<ctx, regs, hwDelay, fifo, call, log, ready, faults, calls, codec, hwNonce, nonces>>

\* the next statement of the call that is running
CallStep ==
    \/ ExecCmd
    \/ ExecRead
    \/ ExecDiv
    \/ ExecRet
    \/ ExecFpga
    \/ InitChainStage1Done
    \/ InitChainStage2Done
    \/ HelperDone

\* the next statement of thread t
ThStep(t) ==
    \/ ThBuf(t)
    \/ ThTrig(t)
    \/ ThPoll(t)
    \/ ThReturn(t)
    \/ ThReadWait(t)
    \/ ThReadPoll(t)
    \/ ThReadReturn(t)

NextLive ==
    \/ \E chain \in Chains : calls < MaxHelperCalls /\ CallInitChain(chain)
    \/ \E num_chips \in LiveChipCounts : CallHelper("enumerate_chips", 0, num_chips)
    \/ \E masks \in RmwArgs : CallHelper("read_modify_write", 0, masks)
    \/ \E t \in Threads, chain \in Chains, cmd \in LiveFrames :
          calls < MaxHelperCalls /\ ThCall(t, chain, cmd)
    \/ CallReadNonces(TRUE, MaxNonceSlots - 1)
    \/ CallStep
    \/ \E t \in Threads : ThStep(t)

\* a call that has been entered keeps running: the process and each thread
\* are scheduled again and again
SpecLive ==
    /\ InitLive
    /\ [][NextLive]_vars
    /\ WF_vars(CallStep)
    /\ \A t \in Threads : WF_vars(ThStep(t))

----------------------------------------------------------------------------
(* Two threads inside bm1398_send_work at once, each for a chain of its    *)
(* own, interleaved at the writes of the register window.  The function    *)
(* takes no lock; both threads write the one work FIFO.                    *)

\* changes of the running thread between two writes of the work FIFO
MaxSwitches == 2

\* the changes of thread among the writes logged so far
Switches(l) == Cardinality({ i \in 1..(Len(l) - 1) : l[i].thread # l[i + 1].thread })

\* thread t enters bm1398_send_work(ctx, chain, work_id, work_data, midstates)
\* and builds its packet: cmd holds words[], i the index of the next write
ThSendWork(t, chain, work_id, work_data, midstates) ==
    /\ th[t].pc = "idle"
    /\ calls < MaxCalls
    /\ \A o \in Threads \ {t} : th[o].pc # "idle" => th[o].chain # chain
    /\ SendWorkArgsOk(ctx, chain, work_data, midstates)
    /\ th' = [th EXCEPT ![t] =
                [pc |-> "work", chain |-> chain,
                 cmd |-> SendWorkWrites(WorkWords(WorkPacket(chain, work_id, work_data,
                                                             midstates))),
                 i |-> 1, timeout |-> 0, ret |-> 0]]
    /\ calls' = calls + 1
    /\ UNCHANGED <<ctx, regs, hwDelay, fifo, call, log, ready, faults, codec, hwNonce, nonces>>

\* one fpga_write_indirect of the packet
ThWorkWrite(t) ==
    /\ th[t].pc = "work"
    /\ th[t].i <= Len(th[t].cmd)
    /\ IF log = << >> THEN TRUE
       ELSE log[Len(log)].thread = t \/ Switches(log) < MaxSwitches
    /\ regs' = fpga_write_indirect(ctx, regs, th[t].cmd[th[t].i].idx, th[t].cmd[th[t].i].word)
    /\ log' = Append(log, [ev |-> "work", thread |-> t, chain |-> th[t].chain,
                           frame |-> << th[t].cmd[th[t].i].idx >> \o th[t].cmd[th[t].i].word,
                           ok |-> TRUE])
    /\ th' = [th EXCEPT ![t].i = th[t].i + 1]
    /\ UNCHANGED <<ctx, hwDelay, fifo, call, ready, faults, calls, codec, hwNonce, nonces>>

\* return 0
ThWorkReturn(t) ==
    /\ th[t].pc = "work"
    /\ th[t].i > Len(th[t].cmd)
    /\ th' = [th EXCEPT ![t] = [IdleThreads[t] EXCEPT !.ret = 0, !.chain = th[t].chain]]
    /\ UNCHANGED <<ctx, regs, hwDelay, fifo, call, log, ready, faults, calls, codec, hwNonce, nonces>>

InitWork ==
    /\ ctx = InitCtx({0, 1, 2})
    /\ regs = InitRegs
    /\ hwDelay = 0
    /\ fifo = << >>
    /\ call = IdleCall
    /\ th = IdleThreads
    /\ log = << >>
    /\ ready = [c \in Chains |-> TRUE]
    /\ faults = 0
    /\ calls = 0
    /\ codec = NoCodec
    /\ hwNonce = NoNonce
    /\ nonces = NoDrain

NextWork ==
    \/ \E t \in Threads, chain \in Chains, midstates \in MidstateSets :
          ThSendWork(t, chain, << 0, 0, 0, t >>, [i \in 1..12 |-> 16 * t + i], midstates)
    \/ \E t \in Threads : ThWorkWrite(t)
    \/ \E t \in Threads : ThWorkReturn(t)

SpecWork == InitWork /\ [][NextWork]_vars

----------------------------------------------------------------------------
(* bm1398_send_uart_cmd called on its own, one register access per step,   *)
(* with arguments it accepts and arguments it rejects                      *)

\* cmd/len arguments: no command (or length 0), frames of 5, 9 and 12
\* bytes, and one byte more than the buffer takes
UartFrames ==
    { << >>,
      chain_inactive_cmd,
      write_register_cmd(TRUE, 0, ASIC_REG_TICKET_MASK, TICKET_MASK_ALL_CORES),
      [i \in 1..12 |-> 16 * i + 1],
      [i \in 1..13 |-> 16 * i + 1] }

InitUart ==
    /\ ctx \in { InitCtx({0, 1, 2}), NoCtx }
    /\ regs = InitRegs
    /\ hwDelay = 0
    /\ fifo = << >>
    /\ call = IdleCall
    /\ th = IdleThreads
    /\ log = << >>
    /\ ready = [c \in Chains |-> FALSE]
    /\ faults = 0
    /\ calls = 0
    /\ hwNonce = NoNonce
    /\ nonces = NoDrain
    /\ codec = NoCodec

\* thread t enters bm1398_send_uart_cmd(ctx, chain, cmd, len): the argument
\* checks send it to the buffer loop or straight to the failing return
ThSendUartCmd(t, chain, cmd) ==
    /\ th[t].pc = "idle"
    /\ calls < MaxCalls
    /\ th' = [th EXCEPT ![t] = IF UartArgsOk(ctx, chain, cmd)
                               THEN UartEnter(chain, cmd)
                               ELSE [UartEnter(chain, cmd) EXCEPT !.pc = "ret", !.ret = -1]]
    /\ calls' = calls + 1
    /\ UNCHANGED <<ctx, regs, hwDelay, fifo, call, log, ready, faults, codec, hwNonce, nonces>>

NextUart ==
    \/ \E chain \in ChainArgs, cmd \in UartFrames : ThSendUartCmd(1, chain, cmd)
    \/ ThBuf(1)
    \/ ThTrig(1)
    \/ ThPoll(1)
    \/ ThReturn(1)

SpecUart == InitUart /\ [][NextUart]_vars

----------------------------------------------------------------------------
(* The exported functions called on a context that is not usable: the one  *)
(* a failed bm1398_init leaves, and any context after bm1398_cleanup       *)

InitOutcomes == { "open_failed", "mmap_failed", "ok" }

\* the context bm1398_init returns with: zeroed when the device cannot be
\* opened, zeroed but for the MAP_FAILED stored in fpga_regs when mmap fails
bm1398_init(outcome) ==
    CASE outcome = "open_failed" -> NoCtx
      [] outcome = "mmap_failed" -> [NoCtx EXCEPT !.fpga_regs = MAP_FAILED]
      [] OTHER -> InitCtx({0, 1, 2})

\* the context after bm1398_cleanup: only a real mapping is unmapped and
\* its pointer cleared
bm1398_cleanup(c) ==
    [c EXCEPT !.fpga_regs = IF @ # REGS_NULL /\ @ # MAP_FAILED THEN REGS_NULL ELSE @,
              !.initialized = FALSE]

\* what bm1398_detect_chains returns, and whether it read the register
\* window; hw is what REG_HASH_ON_PLUG holds
bm1398_detect_chains(c, hw) ==
    IF ~c.initialized THEN [value |-> ZeroWord, read |-> FALSE]
    ELSE [value |-> hw, read |-> TRUE]

InitUnusable ==
    /\ \E outcome \in InitOutcomes : ctx = bm1398_init(outcome)
    /\ regs = InitRegs
    /\ hwDelay = 0
    /\ fifo = << >>
    /\ call = IdleCall
    /\ th = IdleThreads
    /\ log = << >>
    /\ ready = [c \in Chains |-> FALSE]
    /\ faults = 0
    /\ calls = 0
    /\ hwNonce = NoNonce
    /\ nonces = NoDrain
    /\ codec = NoCodec

CallCleanup ==
    /\ call.op = "idle"
    /\ ctx' = bm1398_cleanup(ctx)
    /\ call' = CmdDone("cleanup", 0, << >>, 0)
    /\ UNCHANGED <<regs, hwDelay, fifo, th, log, ready, faults, calls, codec, hwNonce, nonces>>

CallDetectChains ==
    /\ call.op = "idle"
    /\ calls < MaxCalls
    /\ calls' = calls + 1
    /\ log' = << >>
    /\ \E hw \in RespWords :
       \E res \in { bm1398_detect_chains(ctx, hw) } :
          call' = [CmdDone("detect_chains", 0, << >>, 0)
                     EXCEPT !.rd = res.value, !.reads = IF res.read THEN 1 ELSE 0]
    /\ UNCHANGED <<ctx, regs, hwDelay, fifo, th, ready, faults, codec, hwNonce, nonces>>

\* fpga_read_indirect or fpga_write_indirect with fpga_regs = MAP_FAILED:
\* the access through the invalid pointer ends the process
CallFpgaTrap(logical_index) ==
    /\ call.op = "idle"
    /\ calls < MaxWindowCalls
    /\ ctx.fpga_regs = MAP_FAILED
    /\ logical_index >= 0 /\ logical_index < FPGA_REGISTER_MAP_SIZE
    /\ calls' = calls + 1
    /\ call' = [CmdDone("fpga_indirect", 0, << logical_index >>, 0) EXCEPT !.op = "crashed"]
    /\ UNCHANGED <<ctx, regs, hwDelay, fifo, th, log, ready, faults, codec, hwNonce, nonces>>

\* the calls are made while the context is not usable
NextUnusable ==
    \/ CallCleanup
    \/ \E chain \in Chains : ~ctx.initialized /\ bm1398_chain_inactive(chain)
    \/ \E chain \in Chains, addr \in CmdChipAddrs :
          ~ctx.initialized /\ bm1398_set_chip_address(chain, addr)
    \/ \E chain \in Chains, reg_addr \in CmdRegAddrs :
          /\ ~ctx.initialized
          /\ bm1398_write_register(chain, TRUE, 0, reg_addr, TICKET_MASK_ALL_CORES)
    \/ \E chain \in Chains, reg_addr \in CmdRegAddrs :
          /\ ~ctx.initialized
          /\ bm1398_read_register(chain, FALSE, 0, reg_addr, TRUE, 1)
    \/ \E chain \in Chains : ~ctx.initialized /\ CallInitChain(chain)
    \/ \E num_chips \in { NumChips } :
          ~ctx.initialized /\ CallHelper("enumerate_chips", 0, num_chips)
    \/ \E masks \in RmwArgs : ~ctx.initialized /\ CallHelper("read_modify_write", 0, masks)
    \/ \E chain \in Chains, work_data \in WorkDatas, midstates \in MidstateSets :
          /\ ~ctx.initialized
          /\ CallSendWork(chain, << 0, 0, 0, 1 >>, work_data, midstates)
    \/ ~ctx.initialized /\ CallReadNonce(TRUE)
    \/ ~ctx.initialized /\ CallReadNonces(TRUE, MaxNonceSlots - 1)
    \/ ~ctx.initialized /\ CallDetectChains
    \/ \E logical_index \in FpgaIndexArgs : ~ctx.initialized /\ CallFpgaRead(logical_index)
    \/ \E logical_index \in FpgaIndexArgs :
          ~ctx.initialized /\ CallFpgaWrite(logical_index, << 18, 52, 86, 120 >>)
    \/ \E logical_index \in FpgaIndexArgs : CallFpgaTrap(logical_index)

SpecUnusable == InitUnusable /\ [][NextUnusable]_vars

----------------------------------------------------------------------------
(* Properties *)

\* the events of the log that stage n of the bring-up produced
StageLog(n) == SelectSeq(log, LAMBDA e : e.stage = n)

\* the 32-bit value a nine-byte frame carries in bytes 4..7
FrameValue(f) == << f[5], f[6], f[7], f[8] >>

\* f is the broadcast write of val to register reg; NoWord stands for any value
IsBroadcastWrite(f, reg, val) ==
    /\ Len(f) = 9
    /\ f[1] = 81
    /\ f[4] = reg
    /\ val # NoWord => FrameValue(f) = val

\* a clock-control write that carries a baud divisor or the high-speed bit
IsBaudWrite(f) ==
    /\ IsBroadcastWrite(f, 24, NoWord)
    /\ (f[6] % 2 = 1 \/ f[7] % 32 # 0 \/ f[5] % 16 # 0)

IsLowBaudWrite(f) == IsBaudWrite(f) /\ f[6] % 2 = 0

IsHighBaudWrite(f) == IsBaudWrite(f) /\ f[6] % 2 = 1

\* the reference checksum as the specification words it: a pure left shift,
\* folded with 0x05 when the top bit disagrees with the incoming bit
Crc5ReferenceStep(crc, bit) ==
    IF (crc \div 16) % 2 # bit
    THEN BitXor((crc * 2) % 32, 5)
    ELSE (crc * 2) % 32

RECURSIVE Crc5Reference(_, _)
Crc5Reference(data, bits) ==
    IF bits = 0 THEN 31
    ELSE Crc5ReferenceStep(Crc5Reference(data, bits - 1), DataBit(data, bits - 1))

\* C1: for every input, bm1398_crc5(data, bits) is the reference checksum
\* (initial value 0x1F, bits MSB-first, XOR-fold with 0x05 when the top bit
\* disagrees with the incoming bit, otherwise a pure left shift, 5-bit mask).
\* Violated under SpecCodec: the code ORs the incoming bit into bit 0.
C1_CrcEqualsReference ==
    codec.out # -1 => codec.out = Crc5Reference(codec.data, codec.bits)

\* C2: bm1398_chain_inactive transmits the five bytes 53 05 00 00 1C, 0x1C
\* being bm1398_crc5 over the first four.  Violated under SpecCmd: the last
\* byte transmitted is 0x18.
C2_ChainInactiveFrame ==
    (call.last = "chain_inactive" /\ log # << >>)
        => log[1].frame = << 83, 5, 0, 0, 28 >>

\* the preamble the operation last called puts in byte 0
OpPreamble ==
    CASE call.last = "chain_inactive" -> 83
      [] call.last = "set_chip_address" -> 64
      [] call.last = "write_register" -> IF call.args[1] THEN 81 ELSE 65
      [] call.last = "read_register" -> IF call.args[1] THEN 82 ELSE 66

\* the frame length of the operation last called
OpLength == IF call.last \in { "chain_inactive", "set_chip_address" } THEN 5 ELSE 9

\* C3: every frame that chain_inactive, set_chip_address, write_register and
\* read_register hand to the command bus has the operation's preamble in
\* byte 0, its total length (5 or 9) in byte 1, bm1398_crc5 over all
\* preceding bits, at most 0x1F, as its last byte, and for a register write
\* the value in bytes 4..7 most significant byte first.
C3_FrameLayout ==
    \A i \in 1..Len(log) :
        LET f == log[i].frame
            n == Len(f)
        IN  /\ call.last \in { "chain_inactive", "set_chip_address",
                               "write_register", "read_register" }
            /\ n = OpLength
            /\ f[1] = OpPreamble
            /\ f[2] = n
            /\ f[n] = bm1398_crc5(SubSeq(f, 1, n - 1), 8 * (n - 1))
            /\ f[n] <= 31
            /\ call.last = "write_register" => FrameValue(f) = call.args[4]

\* C3 witness: a single-chip write of 0x12345678 has been transmitted
C3_Witness ==
    /\ call.last = "write_register"
    /\ Len(log) = 1
    /\ log[1].frame[1] = 65
    /\ call.args[4] = << 18, 52, 86, 120 >>

\* C4: no Stage 2 command is issued unless Stage 1 returned success, and
\* bm1398_init_chain returns success exactly when Stage 1 and then Stage 2
\* both returned success.
C4_NoStageSkipped ==
    /\ \A i \in 1..Len(log) : log[i].stage = 2 => call.s1 = "ok"
    /\ (call.op = "idle" /\ call.last = "init_chain")
          => (call.ret = 0 <=> (call.s1 = "ok" /\ call.s2 = "ok"))
    /\ (call.op = "idle" /\ call.last = "init_chain" /\ call.ret # 0) => call.ret = -1

\* C4 witness: init_chain has returned success after both stages ran
C4_Witness ==
    /\ call.op = "idle" /\ call.last = "init_chain" /\ call.ret = 0
    /\ call.s1 = "ok" /\ call.s2 = "ok"
    /\ StageLog(2) # << >>

\* C5: bm1398_send_work writes words to the work FIFO only for a chain whose
\* bring-up has completed successfully; otherwise it writes nothing and
\* returns failure.  Violated under Spec: only ctx->initialized is looked at.
C5_WorkOnlyWhenReady ==
    /\ \A i \in 1..Len(log) :
          (log[i].ev = "work" /\ log[i].chain \in Chains) => ready[log[i].chain]
    /\ (call.last = "send_work" /\ call.chain \in Chains /\ ~ready[call.chain])
          => (call.ret = -1 /\ log = << >>)

\* the seven writes of Stage 1 as documented: register, value
Stage1Documented ==
    << << 24, << 0, 0, 0, 0 >> >>,
       << 52, << 0, 0, 0, 0 >> >>,
       << 24, << 15, 64, 0, 0 >> >>,
       << 24, << 240, 0, 0, 0 >> >>,
       << 24, << 240, 0, 4, 0 >> >>,
       << 52, << 0, 0, 0, 8 >> >>,
       << 20, << 255, 255, 255, 255 >> >> >>

\* C6: Stage 1 issues exactly the seven documented broadcast writes, in the
\* documented order, with no other bus command among them.
C6_Stage1Order ==
    LET s == StageLog(1)
    IN  /\ Len(s) <= 7
        /\ \A i \in 1..Len(s) :
              /\ s[i].ev = "cmd"
              /\ IsBroadcastWrite(s[i].frame, Stage1Documented[i][1], Stage1Documented[i][2])
        /\ call.s1 # "none" => Len(s) = 7

\* C6 witness: Stage 1 has returned after its seven writes
C6_Witness == call.s1 = "ok" /\ Len(StageLog(1)) = 7

\* one documented step of Stage 2: a broadcast write (val NoWord: any value),
\* another bus command by its preamble, or an FPGA register write
DocWrite(reg, val) == [ev |-> "cmd", p |-> 81, reg |-> reg, val |-> val]

DocCmd(p) == [ev |-> "cmd", p |-> p, reg |-> 0, val |-> NoWord]

DocFpga == [ev |-> "fpga", p |-> 20, reg |-> 0, val |-> NoWord]

\* the documented order of Stage 2 for a chain of n chips
Stage2Documented(n) ==
    << DocWrite(84, NoWord), DocCmd(83), DocWrite(24, NoWord), DocCmd(83) >>
    \o [i \in 1..n |-> DocCmd(64)]
    \o << DocWrite(60, << 128, 0, 133, 31 >>), DocWrite(60, << 128, 0, 6, 0 >>),
          DocWrite(60, NoWord), DocWrite(68, NoWord), DocWrite(88, NoWord),
          DocWrite(8, ZeroWord), DocWrite(96, ZeroWord),
          DocWrite(100, ZeroWord), DocWrite(104, ZeroWord),
          DocWrite(8, NoWord),
          DocCmd(66), DocWrite(104, NoWord), DocWrite(40, NoWord), DocWrite(24, NoWord),
          DocWrite(168, NoWord), DocWrite(24, NoWord), DocWrite(60, NoWord),
          DocWrite(68, NoWord), DocWrite(60, NoWord),
          DocFpga,
          DocWrite(20, << 0, 0, 0, 255 >>),
          DocWrite(60, NoWord) >>

MatchesDoc(e, d) ==
    /\ e.ev = d.ev
    /\ e.frame[1] = d.p
    /\ (d.ev = "cmd" /\ d.p = 81) => IsBroadcastWrite(e.frame, d.reg, d.val)

\* C7: the commands of Stage 2 follow the documented order, and every
\* set-address command is sent after the low-baud clock-control write and
\* before the high-baud one.
C7_Stage2Order ==
    LET s == StageLog(2)
    IN  s # << >> =>
          LET d == Stage2Documented(ctx.chips_per_chain[call.chain])
          IN  /\ Len(s) <= Len(d)
              /\ \A i \in 1..Len(s) : MatchesDoc(s[i], d[i])
              /\ call.s2 = "ok" => Len(s) = Len(d)
              /\ Len(s) >= 3 => IsLowBaudWrite(s[3].frame)
              /\ \A i \in 1..Len(s) :
                    (s[i].ev = "cmd" /\ s[i].frame[1] = 64)
                        => /\ \E j \in 1..(i - 1) : IsLowBaudWrite(s[j].frame)
                           /\ \A j \in 1..(i - 1) : ~IsHighBaudWrite(s[j].frame)
              /\ \A i \in 1..Len(s) :
                    (s[i].ev = "cmd" /\ IsHighBaudWrite(s[i].frame))
                        => \A j \in (i + 1)..Len(s) : s[j].frame[1] # 64

\* C7 witness: Stage 2 has run to its end on a chain with chips to address
C7_Witness ==
    /\ call.s2 = "ok"
    /\ \E i \in 1..Len(log) : log[i].stage = 2 /\ log[i].frame[1] = 64
    /\ \E i \in 1..Len(log) : log[i].stage = 2 /\ IsHighBaudWrite(log[i].frame)

\* a command of one of the sequencing-critical steps of Stage 2: chip
\* enumeration, a baud-rate change, the frequency write, a ticket-mask write
IsCriticalCmd(f) ==
    \/ f[1] \in { 64, 83 }
    \/ IsBaudWrite(f)
    \/ (IsBroadcastWrite(f, 8, NoWord) /\ FrameValue(f) # ZeroWord)
    \/ IsBroadcastWrite(f, 20, NoWord)

\* C8: Stage 2 returns failure whenever a ticket-mask write, the chip
\* enumeration, a baud-rate change or the frequency configuration failed.
\* Stated for a detected chain.  Violated under Spec: a failed frequency
\* write is only warned about.
C8_CriticalFailureFatal ==
    (call.s2 = "ok" /\ ctx.chips_per_chain[call.chain] > 0) =>
        \A i \in 1..Len(log) :
            (log[i].stage = 2 /\ log[i].ev = "cmd" /\ IsCriticalCmd(log[i].frame))
                => log[i].ok

\* C9: Stage 1 returns success only if every one of its seven writes was
\* transmitted successfully.  Violated under Spec: the results of the first
\* six writes are not looked at.
C9_Stage1TimeoutSurfaced ==
    call.s1 = "ok" => \A i \in 1..Len(log) : log[i].stage = 1 => log[i].ok

\* C10: with two threads transmitting to different chains and no lock, the
\* command buffer holds, whenever a trigger is written, exactly the frame
\* the triggering thread encoded.  Violated under SpecConc: the buffer and
\* the trigger register are shared by all chains.
C10_OwnFrameAtTrigger ==
    \A i \in 1..Len(log) : log[i].ev = "trigger" => log[i].ok

\* the ready bit of the last command triggered is still set: the driver's
\* last read of the trigger register saw it set and the hardware has not
\* cleared it since
BusBusy == ReadyBit(regs[REG_BC_WRITE_COMMAND]) /\ hwDelay # 0

\* C11: the driver writes the command buffer and the trigger for a new
\* command only when the ready bit of the previous command is clear, also
\* inside the bring-up stages and after a transmit timeout.  Violated under
\* Spec: after a timeout the next command is written without any poll.
C11_HandshakeRespected ==
    [][ (Len(log') > Len(log) /\ log'[Len(log')].ev = "cmd") => ~BusBusy ]_vars

\* C12: the transmit wait of bm1398_write_register is bounded: the budget
\* starts at PollBudget (10000) when the trigger is written, every wait
\* iteration takes one off it, it never goes below zero, and a call that
\* leaves the wait loop with the ready bit still set has used the whole
\* budget and returns failure.
C12_BoundedWait ==
    [][ \A t \in Threads :
          /\ th'[t].timeout \in 0..PollBudget
          /\ (th[t].pc = "trig" /\ th'[t].pc = "poll") => th'[t].timeout = PollBudget
          /\ (th[t].pc = "poll" /\ th'[t].pc = "poll" /\ th'[t] # th[t])
                => th'[t].timeout = th[t].timeout - 1
          /\ (th[t].pc = "poll" /\ th'[t].pc = "ret"
                /\ ReadyBit(regs'[REG_BC_WRITE_COMMAND]))
                => (th[t].timeout = 0 /\ th'[t].ret = -1) ]_vars

\* C12 witness: a broadcast register write has given up on a ready bit that
\* the hardware never cleared
C12_Witness ==
    \E t \in Threads :
        /\ th[t].pc = "ret" /\ th[t].ret = -1 /\ th[t].timeout = 0
        /\ th[t].cmd[1] = CMD_PREAMBLE_WRITE_BCAST
        /\ hwDelay = STUCK /\ ReadyBit(regs[REG_BC_WRITE_COMMAND])

\* the poll of the occupancy register at which a response first shows, 0
\* when none ever does: h is what the hardware held and did during the call
FirstOccupied(h) ==
    IF h.fifo # << >> THEN 1
    ELSE IF h.at = NoArrival THEN 0
    ELSE h.at + 1

\* C13: bm1398_read_register sends exactly one read-format frame; when the
\* send fails it returns failure without reading the FIFO; otherwise it polls
\* the occupancy register at most 10 * timeout_ms times, at the first poll
\* that shows a response it consumes exactly one word and returns it
\* verbatim, and when the polls are used up it returns failure, has consumed
\* no word and has left *value alone.
C13_ReadRegister ==
    (call.last = "read_register" /\ call.hw # << >>) =>
        LET budget == 10 * call.args[4]
            first == FirstOccupied(call.hw)
            sent == log # << >> /\ log[1].ok
        IN  /\ Len(log) <= 1
            /\ call.chain \in Chains => Len(log) = 1
            /\ \A i \in 1..Len(log) :
                  /\ log[i].frame[1] = (IF call.args[1] THEN CMD_PREAMBLE_READ_BCAST
                                        ELSE CMD_PREAMBLE_READ_REG)
                  /\ SubSeq(log[i].frame, 2, 8) = << 9, call.args[2], call.args[3], 0, 0, 0, 0 >>
            /\ call.polls <= budget
            /\ ~sent => /\ call.ret = -1 /\ call.polls = 0 /\ call.reads = 0
                        /\ call.rd = NoWord /\ fifo = call.hw.fifo
            /\ (sent /\ first >= 1 /\ first <= budget)
                  => /\ call.ret = 0 /\ call.polls = first /\ call.reads = 1
                     /\ call.rd = (IF call.hw.fifo # << >> THEN Head(call.hw.fifo)
                                   ELSE call.hw.word)
            /\ (sent /\ ~(first >= 1 /\ first <= budget))
                  => /\ call.ret = -1 /\ call.polls = budget /\ call.reads = 0
                     /\ call.rd = NoWord /\ fifo = call.hw.fifo

\* C13 witness: a read whose response showed at the tenth and last poll of a
\* one-millisecond wait
C13_Witness ==
    /\ call.last = "read_register" /\ call.ret = 0
    /\ call.polls = 10 /\ call.reads = 1
    /\ call.rd = << 0, 0, 0, 0 >> /\ call.args[4] = 1

\* the set-address frames of the log, in the order sent
SetAddressLog == SelectSeq(log, LAMBDA e : e.frame[1] = CMD_PREAMBLE_SET_ADDRESS)

\* bm1398_enumerate_chips was called with a chip count in lo..hi
EnumerateCalled(lo, hi) ==
    /\ "enumerate_chips" \in { call.op, call.last }
    /\ call.args[1] \in lo..hi

\* C14: for a chip count n in 1..128, the set-address commands of
\* bm1398_enumerate_chips carry the addresses 0, s, 2s, ... with
\* s = max(1, 256 / n): strictly increasing, all below 256, none skipped or
\* reused; there are exactly n of them once the function has returned
\* (after a chain-inactive command that succeeded).
C14_AddressStride ==
    EnumerateCalled(1, 128) =>
        LET n == call.args[1]
            q == 256 \div n
            stride == IF q > 1 THEN q ELSE 1
            sa == SetAddressLog
        IN  /\ Len(sa) <= n
            /\ \A i \in 1..Len(sa) :
                  /\ sa[i].frame[3] = (i - 1) * stride
                  /\ sa[i].frame[3] < 256
                  /\ \A j \in 1..(i - 1) : sa[j].frame[3] < sa[i].frame[3]
            /\ (call.op = "idle" /\ log[1].ok) => Len(sa) = n

\* C14 witness: 128 chips have been addressed, the last at 254
C14_Witness ==
    /\ call.op = "idle" /\ call.last = "enumerate_chips" /\ call.args[1] = 128
    /\ Len(SetAddressLog) = 128
    /\ SetAddressLog[128].frame[3] = 254

\* C15: bm1398_enumerate_chips (chip count at least 1) returns failure
\* exactly when the chain-inactive command failed or at least one
\* set-address command failed; after a failed chain-inactive no set-address
\* command is sent, and after a failed set-address the remaining chips are
\* still addressed.
C15_EnumerateFailure ==
    (call.op = "idle" /\ call.last = "enumerate_chips" /\ call.args[1] >= 1) =>
        LET sa == SetAddressLog
        IN  /\ log # << >> /\ log[1].frame[1] = CMD_PREAMBLE_CHAIN_INACTIVE
            /\ call.ret \in { 0, -1 }
            /\ call.ret = -1 <=> (~log[1].ok \/ \E i \in 1..Len(sa) : ~sa[i].ok)
            /\ ~log[1].ok => Len(log) = 1
            /\ log[1].ok => Len(sa) = call.args[1]

\* C15 witness: a set-address command other than the last one failed, all
\* chips were addressed and failure was returned
C15_Witness ==
    /\ call.op = "idle" /\ call.last = "enumerate_chips" /\ call.ret = -1
    /\ call.args[1] >= 3
    /\ Len(SetAddressLog) = call.args[1]
    /\ ~SetAddressLog[1].ok

\* C16: bm1398_set_frequency plans, for 525 MHz and for every other target
\* alike, feedback 84, postdiv1 2, postdiv2 1, reference 1 (stored as 84, 1,
\* 0, 0), a VCO of 2100 MHz with the high-range bit 28 clear, and broadcasts
\* PLL0 (register 0x08) = 0x40540100 as its only command; it returns success
\* when that write succeeds, whatever the target.
C16_FrequencyPlan ==
    (call.op = "idle" /\ call.last = "set_frequency") =>
        LET f == PllFields(call.args[1])
        IN  /\ f.fbdiv_reg = 84 /\ f.postdiv1_reg + 1 = 2
            /\ f.postdiv2_reg + 1 = 1 /\ f.refdiv_reg + 1 = 1
            /\ PllVco(f) = 2100
            /\ Len(log) = 1
            /\ IsBroadcastWrite(log[1].frame, 8, << 64, 84, 1, 0 >>)
            /\ (log[1].frame[5] \div 16) % 2 = 0
            /\ call.ret = (IF log[1].ok THEN 0 ELSE -1)

\* C16 witness: a target other than 525 MHz was accepted with the fallback
C16_Witness ==
    /\ call.op = "idle" /\ call.last = "set_frequency"
    /\ call.args[1] = 650 /\ call.ret = 0
    /\ Len(log) = 1 /\ FrameValue(log[1].frame) = << 64, 84, 1, 0 >>

\* C17: the dividers planned for 525 MHz satisfy
\* target = 25 MHz * feedback / (reference * postdiv1 * postdiv2) with the
\* actual divider values (stored field + 1).  Violated under SpecHelper: the
\* plan gives 25 * 84 / (1 * 2 * 1) = 1050.
C17_PlannerRelation ==
    (call.op = "idle" /\ call.last = "set_frequency" /\ call.args[1] = 525
        /\ call.ret = 0)
        => PllFreqActual(PllFields(call.args[1])) = call.args[1]

\* the last frame of the log is a clock-control write with bit 16 equal to b
LastIsClkCtrl(b) ==
    /\ log # << >>
    /\ IsBroadcastWrite(log[Len(log)].frame, ASIC_REG_CLK_CTRL, NoWord)
    /\ log[Len(log)].frame[6] % 2 = b

\* C18: for a target whose eightfold fits in 32 bits, bm1398_set_baud_rate
\* computes divisor = reference / (target * 8) - 1 by integer division, with
\* the 400 MHz reference and bit 16 of clock-control set above 3,000,000
\* baud, and the 25 MHz reference and bit 16 clear at or below it;
\* 12,000,000 gives 3 and 115200 gives 26.
C18_BaudDivisor ==
    (call.op = "idle" /\ call.last = "set_baud_rate" /\ call.args[1] \in 1..268435455) =>
        LET b == call.args[1]
            high == b > 3000000
            reference == IF high THEN 400000000 ELSE 25000000
        IN  /\ BaudDiv(b) = (reference \div (b * 8)) - 1
            /\ LastIsClkCtrl(IF high THEN 1 ELSE 0)
            /\ b = 12000000 => BaudDiv(b) = 3
            /\ b = 115200 => BaudDiv(b) = 26
            /\ b = 3000000 => BaudDiv(b) = 0

\* C18 witness: the boundary target 3,000,000 was configured in the
\* low-speed regime
C18_Witness ==
    /\ call.op = "idle" /\ call.last = "set_baud_rate" /\ call.ret = 0
    /\ call.args[1] = 3000000
    /\ LastIsClkCtrl(0)

\* C19: when the computed divisor does not fit the nine bits of the
\* destination fields (it exceeds 511, or the subtraction wrapped),
\* bm1398_set_baud_rate returns failure and writes no clock-control value.
\* Violated under SpecHelper: the divisor is masked into the fields and
\* written.
C19_BaudUnreachable ==
    (call.op = "idle" /\ call.last = "set_baud_rate"
        /\ BaudDiv(call.args[1]) \notin 0..511) =>
        /\ call.ret = -1
        /\ \A i \in 1..Len(log) :
              ~IsBroadcastWrite(log[i].frame, ASIC_REG_CLK_CTRL, NoWord)

\* byte k (0-based) of the packet as it lay in memory before the word swap,
\* recovered from the k / 4-th word written to the FIFO
PacketByte(k) ==
    LET e == log[(k \div 4) + 1].frame
    IN  StoreWord(bswap32(<< e[2], e[3], e[4], e[5] >>))[(k % 4) + 1]

\* C20: the 37 words a successful bm1398_send_work writes are the byte-swapped
\* words of a 148-byte packet with type tag 0x01 in byte 0, chain | 0x80 in
\* byte 1, zero in bytes 2..3, the job id big-endian in bytes 4..7, the
\* header tail in bytes 8..19 and the four midstates in bytes 20..147.
\* Violated under Spec: bytes 4..7 hold the job id shifted left by three.
C20_PacketLayout ==
    (call.last = "send_work" /\ call.ret = 0) =>
        /\ Len(log) = 37
        /\ PacketByte(0) = 1
        /\ PacketByte(1) = call.chain + 128
        /\ PacketByte(2) = 0 /\ PacketByte(3) = 0
        /\ \A k \in 4..7 : PacketByte(k) = call.args[1][k - 3]
        /\ \A k \in 8..19 : PacketByte(k) = call.args[2][k - 7]
        /\ \A k \in 20..147 :
              PacketByte(k) = call.args[3][((k - 20) \div 32) + 1][((k - 20) % 32) + 1]

\* the work descriptor a receiver reads back from the words written to the
\* FIFO: every word swapped back, the fields taken at the documented offsets
DecodedWork ==
    [work_id |-> << PacketByte(4), PacketByte(5), PacketByte(6), PacketByte(7) >>,
     work_data |-> [i \in 1..12 |-> PacketByte(7 + i)],
     midstates |-> [m \in 1..4 |-> [i \in 1..32 |-> PacketByte(20 + 32 * (m - 1) + (i - 1))]]]

\* C21: decoding the 37 words that bm1398_send_work wrote recovers the job
\* id, the header tail and the four midstates unchanged.  Violated under
\* Spec: the job id read back is the one given shifted left by three bits.
C21_RoundTrip ==
    (call.last = "send_work" /\ call.ret = 0) =>
        /\ DecodedWork.work_id = call.args[1]
        /\ DecodedWork.work_data = call.args[2]
        /\ DecodedWork.midstates = call.args[3]

\* the 32-bit word that the i-th logged FIFO write carries
LoggedWord(i) == << log[i].frame[2], log[i].frame[3], log[i].frame[4], log[i].frame[5] >>

\* the arguments of the last bm1398_send_work pass the checks at its head
SendWorkAccepted ==
    /\ ctx.initialized
    /\ call.args[2] # NoWord /\ call.args[3] # NoWord
    /\ call.chain \in Chains

\* C22: a successful bm1398_send_work performs exactly 37 FIFO writes in
\* packet word order, word 0 through logical index 16 and words 1..36 through
\* logical index 17; with a null argument, an uninitialized context or a
\* chain outside 0..2 it writes nothing and returns failure.
C22_SendWorkWrites ==
    [][ (calls' = calls + 1 /\ call'.last = "send_work") =>
          /\ SendWorkAccepted' =>
                /\ call'.ret = 0
                /\ Len(log') = 37
                /\ log'[1].frame[1] = 16
                /\ \A i \in 2..37 : log'[i].frame[1] = 17
                /\ \A i \in 1..37 :
                      LoggedWord(i)' = WorkWords(WorkPacket(call'.chain, call'.args[1],
                                                            call'.args[2], call'.args[3]))[i]
          /\ ~SendWorkAccepted' =>
                /\ call'.ret = -1
                /\ log' = << >>
                /\ regs' = regs ]_vars

\* C22 witness: a packet has been written, its last word through index 17
C22_Witness ==
    /\ call.last = "send_work" /\ call.ret = 0
    /\ Len(log) = 37
    /\ log[37].frame[1] = 17

\* C23: logical indices 16 and 17 both resolve to word offset 16 (byte
\* offset 0x040), so every one of the 37 words of a packet is written to the
\* one physical register REG_TW_WRITE_COMMAND, which holds the last word
\* afterwards.  Violated under SpecFifo: fpga_register_map[17] is 32, so
\* words 1..36 are written to word offset 32.
C23_OnePhysicalPort ==
    (call.last = "send_work" /\ call.ret = 0) =>
        /\ fpga_register_map[FPGA_REG_TW_WRITE_CMD_FIRST + 1] = 16
        /\ fpga_register_map[FPGA_REG_TW_WRITE_CMD_REST + 1] = 16
        /\ \A i \in 1..Len(log) :
              /\ FpgaWriteOffset(ctx, log[i].frame[1]) = REG_TW_WRITE_COMMAND
              /\ 4 * FpgaWriteOffset(ctx, log[i].frame[1]) = 64
        /\ regs[REG_TW_WRITE_COMMAND] = LoggedWord(Len(log))

\* bit 7 of the low word of a FIFO entry
IndicatorSet(e) == e[4] >= 128

\* the record that the documented layout reads from an entry: chain id in
\* bits 3..0 of the low word, the nonce the whole low word, the job id in
\* bits 30..16 of the high word
LayoutRecord(e) ==
    [chain_id |-> e[4] % 16,
     nonce |-> << e[1], e[2], e[3], e[4] >>,
     work_id |-> (e[5] * 256 + e[6]) % 32768,
     chip_id |-> 0,
     core_id |-> 0]

\* C24: bm1398_read_nonce reads one entry, the low word and the word after
\* it; when bit 7 of the low word is 0 it returns 0 and leaves the record as
\* it was, whatever the other bits are; when bit 7 is 1 it returns 1 with the
\* chain id from bits 3..0 of the low word, the whole low word as the nonce
\* and bits 30..16 of the high word as the job id.
C24_ReadNonce ==
    (nonces.op = "read_nonce" /\ ctx.initialized /\ nonces.args[1]) =>
        /\ Len(nonces.reads) = 1
        /\ ~IndicatorSet(nonces.reads[1]) =>
              /\ nonces.ret = 0
              /\ nonces.out = EmptyNonces
        /\ IndicatorSet(nonces.reads[1]) =>
              /\ nonces.ret = 1
              /\ nonces.out[1].chain_id = LayoutRecord(nonces.reads[1]).chain_id
              /\ nonces.out[1].nonce = LayoutRecord(nonces.reads[1]).nonce
              /\ nonces.out[1].work_id = LayoutRecord(nonces.reads[1]).work_id

\* C24 witness: an entry with every bit but the indicator set was read and
\* no data reported
C24_Witness ==
    /\ nonces.op = "read_nonce" /\ nonces.ret = 0
    /\ nonces.reads = << << 255, 255, 255, 127, 255, 255, 255, 255 >> >>

\* the occupancy word masked to 15 bits
Masked15(count) == (count[3] * 256 + count[4]) % 32768

\* C25: bm1398_read_nonces reads min(c, max_count) entries, c the occupancy
\* word masked to 15 bits (none when c = 0 or max_count <= 0); it returns the
\* number of those entries whose indicator bit was set, never more than
\* min(c, max_count); their records fill the first slots of the array in the
\* order read, and no other slot, in particular none at or beyond index
\* max_count, is written.
C25_ReadNonces ==
    (nonces.op = "read_nonces" /\ ctx.initialized /\ nonces.args[1]) =>
        LET c == Masked15(nonces.count)
            max == nonces.args[2]
            m == IF max <= 0 THEN 0 ELSE IF c < max THEN c ELSE max
            valid == SelectSeq(nonces.reads, IndicatorSet)
        IN  /\ Len(nonces.reads) = m
            /\ nonces.ret = Len(valid)
            /\ nonces.ret <= m
            /\ \A k \in 1..nonces.ret : nonces.out[k] = LayoutRecord(valid[k])
            /\ \A k \in (nonces.ret + 1)..MaxNonceSlots : nonces.out[k] = NoRecord
            /\ \A k \in 1..MaxNonceSlots : k > max => nonces.out[k] = NoRecord

\* C25 witness: the occupancy register read 0xFFFFFFFF, max_count was 2, and
\* of the two entries read the second had its indicator set and went to the
\* first slot
C25_Witness ==
    /\ nonces.op = "read_nonces" /\ nonces.ret = 1
    /\ nonces.count = << 255, 255, 255, 255 >> /\ nonces.args[2] = 2
    /\ Len(nonces.reads) = 2
    /\ ~IndicatorSet(nonces.reads[1])
    /\ nonces.out[1].nonce = EntryLow(nonces.reads[2])

\* the logical index of the last indirect access is outside the map
IndexOutOfRange ==
    /\ call.last \in { "fpga_read_indirect", "fpga_write_indirect" }
    /\ (call.args[1] < 0 \/ call.args[1] >= 110)

\* C30: an out-of-range logical index is rejected without touching the
\* register window: fpga_write_indirect leaves every register word as it
\* was, and fpga_read_indirect reads no register and hands back no value
\* that could be taken for a register's.  Violated under SpecFifo: the read
\* returns 0, which is also what a register holding 0 reads as.
C30_IndexRejected ==
    IndexOutOfRange =>
        /\ call.last = "fpga_write_indirect" => regs = call.hw
        /\ call.last = "fpga_read_indirect" => (call.reads = 0 /\ call.rd = NoWord)

IsNonCriticalWrite(f) ==
    \/ IsBroadcastWrite(f, 88, NoWord)
    \/ IsBroadcastWrite(f, 60, CORE_CONFIG_NONCE_OVF_DIS)

\* C29: when the write of a non-critical step of Stage 2 (IO driver
\* strength, nonce-overflow disable) fails, the stage goes on: the commands
\* sent are still the documented ones in the documented order, all of them
\* once the stage has returned, and with every other command successful the
\* stage returns success, and so does bm1398_init_chain.
C29_NonCriticalContinues ==
    LET s == StageLog(2)
        d == Stage2Documented(ctx.chips_per_chain[call.chain])
    IN  \A i \in 1..Len(s) :
            (IsNonCriticalWrite(s[i].frame) /\ ~s[i].ok) =>
                /\ Len(s) <= Len(d)
                /\ \A j \in 1..Len(s) : MatchesDoc(s[j], d[j])
                /\ (\A j \in 1..Len(s) : j # i => s[j].ok) => call.s2 \in { "none", "ok" }
                /\ call.op = "idle" => (call.s2 = "ok" /\ call.ret = 0 /\ Len(s) = Len(d))

\* C29 witness: Stage 2 has returned success after its IO-driver write
\* failed and every later command was sent
C29_Witness ==
    /\ call.op = "idle" /\ call.last = "init_chain" /\ call.s2 = "ok"
    /\ \E i \in 1..Len(log) :
          /\ log[i].stage = 2 /\ ~log[i].ok
          /\ IsBroadcastWrite(log[i].frame, 88, NoWord)
          /\ Len(log) > i + 10

\* bring-up of a chain, then one work submission, then one drain have been
\* made, in this order, and the solution has shown in the FIFO
ScenarioDone ==
    /\ call.op = "idle" /\ call.last = "send_work" /\ call.ret = 0
    /\ \E c \in Chains : ready[c]
    /\ nonces.op = "read_nonces" /\ nonces.after = 2
    /\ hwNonce.left = NoArrival

\* C26: against the register window of SpecE2E, bm1398_init_chain returns
\* success, and a drain made after bring-up and one work submission returns
\* exactly one nonce, the decoded solution, whatever the number of polls
\* after which the solution showed; no step of the bring-up consumes it.
\* Violated under SpecE2E: a solution that shows within the polls of the
\* register read of Stage 2 is taken for that read's response.
C26_EndToEnd ==
    /\ (call.op = "idle" /\ call.last = "init_chain") => (call.ret = 0 /\ ready[call.chain])
    /\ call.rd # EntryLow(FakeNonce)
    /\ ScenarioDone =>
          /\ nonces.ret = 1
          /\ nonces.reads = << FakeNonce >>
          /\ nonces.out[1] = LayoutRecord(FakeNonce)

\* C27: no operation blocks for good, whatever the hardware does (the ready
\* bit never clearing, the FIFO occupancy stuck at 0, stuck non-zero): under
\* fair scheduling every call that is running (bm1398_init_chain with both
\* stages, bm1398_enumerate_chips, bm1398_read_modify_write_register and the
\* reads inside them) returns, and every thread inside bm1398_send_uart_cmd
\* or the wait of bm1398_read_register returns.
C27_EveryCallReturns ==
    /\ (call.op # "idle") ~> (call.op = "idle")
    /\ \A t \in Threads : (th[t].pc # "idle") ~> (th[t].pc = "idle")

\* C27 witness: bm1398_init_chain has returned failure on hardware whose
\* ready bit never clears
C27_Witness ==
    /\ faults = HwStuckForever
    /\ call.op = "idle" /\ call.last = "init_chain" /\ call.ret = -1
    /\ hwDelay = STUCK /\ ReadyBit(regs[REG_BC_WRITE_COMMAND])

\* the places in the log of the writes of thread t
WritesOf(t) == { i \in 1..Len(log) : log[i].thread = t }

\* C31: when two threads run bm1398_send_work at once for two different
\* chains, the words of each packet reach the work FIFO contiguously and in
\* order: between two writes of one thread there is no write of the other.
\* Violated under SpecWork: the threads write the one FIFO with no lock
\* between them, so a word of the other packet lands inside a packet.
C31_PacketsContiguous ==
    \A t \in Threads :
        \A i \in WritesOf(t), j \in WritesOf(t) :
            \A k \in i..j : log[k].thread = t

\* the arguments of the operation last called that its frame is built from
EncodingInputs(c) ==
    IF c.last = "read_register" THEN SubSeq(c.args, 1, 3) ELSE c.args

ClkCtrlWrites ==
    { i \in 1..Len(log) : IsBroadcastWrite(log[i].frame, ASIC_REG_CLK_CTRL, NoWord) }

\* the divisor a clock-control value carries: bits 27..24 above bits 12..8
ClkCtrlDivisor(v) == 32 * (v[1] % 16) + (v[3] % 32)

\* C33: when Stage 2 has returned success, the most recent value written to
\* the clock-control register (0x18) carries the high-speed baud
\* configuration: bit 16 set and divisor 3 for 12 MHz.  Violated under Spec:
\* the core reset sequence writes 0xF0000000 to the register after the
\* high-baud step.
C33_HighBaudKept ==
    (call.op = "idle" /\ call.last = "init_chain" /\ call.s2 = "ok") =>
        \E last \in ClkCtrlWrites :
            /\ \A i \in ClkCtrlWrites : i <= last
            /\ FrameValue(log[last].frame)[2] % 2 = 1
            /\ ClkCtrlDivisor(FrameValue(log[last].frame)) = BaudDiv(BAUD_RATE_12MHZ)
            /\ BaudDiv(BAUD_RATE_12MHZ) = 3

\* C34: the clock-control value written by bm1398_set_baud_rate encodes the
\* computed divisor: bits 12..8 and bits 27..24 of the written value give
\* back the divisor for every divisor in 0..511, in both regimes; for 115200
\* baud the field reads 26.  Violated under SpecHelper: the low-speed base
\* value 0xF0000400 has bit 10 set, inside the low field, so 26 reads as 30.
C34_DivisorEncoded ==
    (/\ call.op = "idle" /\ call.last = "set_baud_rate" /\ call.ret = 0
     /\ BaudDiv(call.args[1]) \in 0..511) =>
        /\ log # << >>
        /\ IsBroadcastWrite(log[Len(log)].frame, ASIC_REG_CLK_CTRL, NoWord)
        /\ ClkCtrlDivisor(FrameValue(log[Len(log)].frame)) = BaudDiv(call.args[1])
        /\ call.args[1] = 115200 =>
              ClkCtrlDivisor(FrameValue(log[Len(log)].frame)) = 26

\* C35: a chip count of 0 or less is rejected cleanly: the process does not
\* die on the division, bm1398_enumerate_chips returns failure without
\* sending any set-address command, and bm1398_init_chain on a chain whose
\* chips_per_chain is 0 returns failure and leaves the chain not Ready.
\* Violated under SpecHelper and under Spec: 256 / num_chips is computed
\* with no check of num_chips, and a negative count returns success.
C35_ZeroChipsRejected ==
    /\ call.op # "crashed"
    /\ (call.op = "idle" /\ call.last = "enumerate_chips" /\ call.args[1] <= 0) =>
          /\ call.ret = -1
          /\ \A i \in 1..Len(log) : log[i].frame[1] # CMD_PREAMBLE_SET_ADDRESS
    /\ (call.op = "idle" /\ call.last = "init_chain" /\ call.chain \in Chains
          /\ ctx.initialized /\ ctx.chips_per_chain[call.chain] = 0) =>
          /\ call.ret = -1
          /\ ~ready[call.chain]

\* C36: bm1398_send_uart_cmd leaves its wait loop with success whenever the
\* poll that ends the loop read the ready bit clear, the last poll the
\* budget allows included, and with the timeout failure only when that
\* poll, like every one before it, read the bit set.  Violated under
\* SpecConc: the poll made after the budget has run out may read the bit
\* clear, and the call still returns -1 because it tests timeout == 0.
C36_ClearPollSucceeds ==
    [][ \A t \in Threads :
          (th[t].pc = "poll" /\ th'[t].pc = "ret") =>
              (th'[t].ret = -1 <=> ReadyBit(regs'[REG_BC_WRITE_COMMAND])) ]_vars

\* C37: no exported operation touches the register window through a context
\* that is not usable: after a failed bm1398_init and after bm1398_cleanup
\* every call returns its error value, no load or store is made through
\* ctx->fpga_regs, the window keeps its contents and the process lives.
\* Violated under SpecUnusable: after a failed mmap fpga_regs holds
\* MAP_FAILED, which the null test of fpga_read_indirect and
\* fpga_write_indirect lets through.
C37_UnusableContextUntouched ==
    ~ctx.initialized =>
        /\ call.op # "crashed"
        /\ regs = InitRegs
        /\ log = << >>
        /\ call.reads = 0 /\ call.polls = 0
        /\ nonces.reads = << >>
        /\ nonces.op # "none" => nonces.ret = -1
        /\ call.last \in { "chain_inactive", "set_chip_address", "write_register",
                           "read_register", "init_chain", "enumerate_chips",
                           "read_modify_write", "send_work" } => call.ret = -1
        /\ call.last \in { "fpga_read_indirect", "detect_chains" } => call.rd = ZeroWord
        /\ call.last = "fpga_write_indirect" => FpgaWriteOffset(ctx, call.args[1]) = -1

\* the work-FIFO trigger indices, the one pair the map may fold together
WorkTriggerIndices == { FPGA_REG_TW_WRITE_CMD_FIRST, FPGA_REG_TW_WRITE_CMD_REST }

\* C38: the indirect map gives each logical index a word offset of its own:
\* the word a completed fpga_write_indirect stored to is the word of no
\* other logical index in 0..109, the two work-FIFO trigger indices apart.
\* Violated under SpecFifo: indices 0, 24, 108 and 109 all translate to
\* word 0, and indices 15 and 16 both translate to word 16.
C38_MapInjective ==
    (call.op = "idle" /\ call.last = "fpga_write_indirect"
        /\ FpgaWriteOffset(ctx, call.args[1]) # -1) =>
        \A j \in 0..(FPGA_REGISTER_MAP_SIZE - 1) :
            \/ j = call.args[1]
            \/ { j, call.args[1] } = WorkTriggerIndices
            \/ FpgaWriteOffset(ctx, j) # FpgaWriteOffset(ctx, call.args[1])

\* the upper and the lower sixteen bits of a word
WordHigh(w) == w[1] * 256 + w[2]

WordLow(w) == w[3] * 256 + w[4]

\* byte k (0 the least significant) of a word
WordByte(w, k) == w[4 - k]

\* the call is one bm1398_send_uart_cmd accepts
UartAccepted(chain, cmd) ==
    ctx.initialized /\ chain \in 0..2 /\ Len(cmd) \in 1..12

\* C39: bm1398_send_uart_cmd writes only the command-bus registers.  A
\* rejected call (chain outside 0..2, length 0 or above 12, no command,
\* uninitialized context) goes to its failing return and writes nothing.
\* An accepted call stores ceil(len / 4) consecutive command-buffer words,
\* frame byte i in byte i mod 4 of word i div 4 with zeros after the frame,
\* then makes one store to the trigger register, of bit 31 plus
\* chain << 16, and stores nothing afterwards: while it waits only the
\* hardware changes the trigger register, by clearing the ready bit.
C39_OnlyCommandBus ==
    [][ \A t \in Threads :
          /\ (th[t].pc = "idle" /\ th'[t] # th[t]) =>
                /\ regs' = regs
                /\ IF UartAccepted(th'[t].chain, th'[t].cmd)
                   THEN th'[t].pc = "buf" /\ th'[t].i = 0
                   ELSE th'[t].pc = "ret" /\ th'[t].ret = -1
          /\ (th[t].pc = "buf" /\ th'[t].pc = "buf" /\ th'[t] # th[t]) =>
                /\ th'[t].i = th[t].i + 1
                /\ 4 * th[t].i < Len(th[t].cmd)
                /\ \A o \in DOMAIN regs :
                      o # REG_BC_COMMAND_BUFFER + th[t].i => regs'[o] = regs[o]
                /\ \A k \in 0..3 :
                      WordByte(regs'[REG_BC_COMMAND_BUFFER + th[t].i], k) =
                         IF 4 * th[t].i + k < Len(th[t].cmd)
                         THEN th[t].cmd[4 * th[t].i + k + 1] ELSE 0
          /\ (th[t].pc = "buf" /\ th'[t].pc # "buf") =>
                /\ th'[t].pc = "trig"
                /\ 4 * th[t].i >= Len(th[t].cmd) /\ 4 * (th[t].i - 1) < Len(th[t].cmd)
                /\ regs' = regs
          /\ (th[t].pc = "trig" /\ th'[t] # th[t]) =>
                /\ th'[t].pc = "poll"
                /\ \A o \in DOMAIN regs : o # REG_BC_WRITE_COMMAND => regs'[o] = regs[o]
                /\ WordHigh(regs'[REG_BC_WRITE_COMMAND]) = 32768 + th[t].chain
                /\ WordLow(regs'[REG_BC_WRITE_COMMAND]) = 0
          /\ (th[t].pc = "poll" /\ th'[t] # th[t]) =>
                /\ th'[t].pc \in { "poll", "ret" }
                /\ \A o \in DOMAIN regs : o # REG_BC_WRITE_COMMAND => regs'[o] = regs[o]
                /\ regs'[REG_BC_WRITE_COMMAND] \in
                      { regs[REG_BC_WRITE_COMMAND], ClearReady(regs[REG_BC_WRITE_COMMAND]) }
          /\ (th[t].pc = "ret" /\ th'[t] # th[t]) =>
                /\ th'[t].pc = "idle"
                /\ regs' = regs ]_vars

\* C39 witness: a call on chain 2 with the five-byte frame has returned
\* success; its second buffer word holds the fifth byte and three zero bytes
\* over what the word held, and the trigger register names chain 2
C39_Witness ==
    /\ th[1].pc = "ret" /\ th[1].ret = 0
    /\ th[1].chain = 2 /\ th[1].cmd = chain_inactive_cmd
    /\ regs[REG_BC_COMMAND_BUFFER + 1] = << 0, 0, 0, chain_inactive_cmd[5] >>
    /\ regs[REG_BC_COMMAND_BUFFER + 1] # InitRegs[REG_BC_COMMAND_BUFFER + 1]
    /\ regs[REG_BC_WRITE_COMMAND] = << 0, 2, 0, 0 >>

====
